---- MODULE Spec2Model ----
(***************************************************************************)
(* A model of chrono-systemd-time: parse_timestamp_tz, parse_time,         *)
(* parse_offset and partition_predicate of src/src/lib.rs, together with   *)
(* the parts of chrono they call (strftime-pattern parsing, conversion of  *)
(* a civil date-time to an instant of a time zone, instant arithmetic).    *)
(*                                                                         *)
(* Texts are sequences of one-character strings.  Numbers of the program   *)
(* are 64-bit; TLC's integers are 32-bit, so the i64 values, durations and *)
(* instants are kept as arbitrary-precision integers: a natural is its     *)
(* little-endian sequence of limbs in base Base without leading zero limb  *)
(* (zero is <<>>), an integer is a record [neg, mag].  Instants are        *)
(* microseconds since the Unix epoch, durations are microseconds.          *)
(***************************************************************************)
EXTENDS Integers, Sequences, FiniteSets, TLC

\* ------------------------------------------------------------------------
\* Arbitrary-precision naturals (the values of i64 arithmetic before the
\* range check of checked_mul / checked_add / str::parse::<i64>)
\* ------------------------------------------------------------------------

Base == 100 * 100

Rest(s) == IF s = <<>> THEN <<>> ELSE Tail(s)

Limb0(s) == IF s = <<>> THEN 0 ELSE Head(s)

RECURSIVE NatNorm(_)
NatNorm(a) ==
    IF a = <<>> THEN <<>>
    ELSE IF a[Len(a)] = 0 THEN NatNorm(SubSeq(a, 1, Len(a) - 1))
    ELSE a

RECURSIVE NatAddC(_, _, _)
NatAddC(a, b, c) ==
    IF a = <<>> /\ b = <<>> THEN (IF c = 0 THEN <<>> ELSE <<c>>)
    ELSE LET x == Limb0(a) + Limb0(b) + c
         IN  <<x % Base>> \o NatAddC(Rest(a), Rest(b), x \div Base)

NatAdd(a, b) == NatAddC(a, b, 0)

RECURSIVE NatCmpRev(_, _)
\* compares two equally long limb sequences from the most significant limb
NatCmpRev(a, b) ==
    IF a = <<>> THEN 0
    ELSE IF a[Len(a)] < b[Len(b)] THEN -1
    ELSE IF a[Len(a)] > b[Len(b)] THEN 1
    ELSE NatCmpRev(SubSeq(a, 1, Len(a) - 1), SubSeq(b, 1, Len(b) - 1))

NatCmp(a, b) ==
    IF Len(a) < Len(b) THEN -1
    ELSE IF Len(a) > Len(b) THEN 1
    ELSE NatCmpRev(a, b)

NatLe(a, b) == NatCmp(a, b) <= 0

NatLt(a, b) == NatCmp(a, b) < 0

RECURSIVE NatSubB(_, _, _)
\* a - b - borrow for a >= b + borrow, not normalised
NatSubB(a, b, w) ==
    IF a = <<>> THEN <<>>
    ELSE LET x == Head(a) - Limb0(b) - w
         IN  IF x < 0 THEN <<x + Base>> \o NatSubB(Tail(a), Rest(b), 1)
             ELSE <<x>> \o NatSubB(Tail(a), Rest(b), 0)

NatSub(a, b) == NatNorm(NatSubB(a, b, 0))

RECURSIVE NatMulLimb(_, _, _)
\* a * k + c for a limb k
NatMulLimb(a, k, c) ==
    IF a = <<>> THEN (IF c = 0 THEN <<>> ELSE <<c>>)
    ELSE LET x == Head(a) * k + c
         IN  <<x % Base>> \o NatMulLimb(Tail(a), k, x \div Base)

RECURSIVE NatMul(_, _)
NatMul(a, b) ==
    IF a = <<>> \/ b = <<>> THEN <<>>
    ELSE NatNorm(NatAdd(NatMulLimb(a, Head(b), 0),
                        IF Tail(b) = <<>> THEN <<>>
                        ELSE <<0>> \o NatMul(a, Tail(b))))

RECURSIVE NatOf(_)
\* the natural of a TLC integer n >= 0
NatOf(n) == IF n = 0 THEN <<>> ELSE <<n % Base>> \o NatOf(n \div Base)

RECURSIVE NatDivRem(_, _)
\* <<quotient limbs (not normalised), remainder>> of a by d, 0 < d <= 200000
NatDivRem(a, d) ==
    IF a = <<>> THEN << <<>>, 0 >>
    ELSE LET hi == NatDivRem(Tail(a), d)
             x  == hi[2] * Base + Head(a)
         IN  << <<x \div d>> \o hi[1], x % d >>

NatDiv(a, d) == NatNorm(NatDivRem(a, d)[1])

\* ------------------------------------------------------------------------
\* Arbitrary-precision integers
\* ------------------------------------------------------------------------

Z(neg, mag) == [neg |-> neg /\ mag # <<>>, mag |-> mag]

ZNat(a) == Z(FALSE, a)

ZOf(n) == IF n < 0 THEN Z(TRUE, NatOf(0 - n)) ELSE Z(FALSE, NatOf(n))

Z0 == ZNat(<<>>)

ZNeg(x) == Z(~x.neg, x.mag)

ZAdd(x, y) ==
    IF x.neg = y.neg THEN Z(x.neg, NatAdd(x.mag, y.mag))
    ELSE IF NatLe(y.mag, x.mag) THEN Z(x.neg, NatSub(x.mag, y.mag))
    ELSE Z(y.neg, NatSub(y.mag, x.mag))

ZSub(x, y) == ZAdd(x, ZNeg(y))

ZMul(x, y) == Z(x.neg # y.neg, NatMul(x.mag, y.mag))

ZLe(x, y) ==
    IF x.neg /\ ~y.neg THEN TRUE
    ELSE IF ~x.neg /\ y.neg THEN FALSE
    ELSE IF x.neg THEN NatLe(y.mag, x.mag)
    ELSE NatLe(x.mag, y.mag)

ZLt(x, y) == ZLe(x, y) /\ x # y

\* ------------------------------------------------------------------------
\* Texts: sequences of characters, each character a one-character string;
\* the letter U+00B5 (micro sign) is written "mu"
\* ------------------------------------------------------------------------

DigitChars == <<"0", "1", "2", "3", "4", "5", "6", "7", "8", "9">>

LetterChars ==
    {"a", "b", "c", "d", "e", "f", "g", "h", "i", "j", "k", "l", "m",
     "n", "o", "p", "q", "r", "s", "t", "u", "v", "w", "x", "y", "z",
     "A", "B", "C", "D", "E", "F", "G", "H", "I", "J", "K", "L", "M",
     "N", "O", "P", "Q", "R", "S", "T", "U", "V", "W", "X", "Y", "Z",
     "mu"}

WhitespaceChars == {" ", "\t"}

\* a predicate on characters is the set of the characters that satisfy it

\* |c| c.is_digit(10)
is_digit == {DigitChars[i] : i \in 1..10}

\* |c| c.is_alphabetic()
is_alphabetic == LetterChars

\* a test that takes the sign '+' for whitespace too
is_whitespace_or_plus(c) == c \in WhitespaceChars \cup {"+"}

\* char::is_whitespace
is_whitespace(c) == c \in WhitespaceChars

DigitVal(c) == (CHOOSE i \in 1..10 : DigitChars[i] = c) - 1

\* positions are 0-based offsets as in the source; NoPos is Option::None
NoPos == 0 - 1

\* &ts[from..to]
Slice(ts, from, to) == SubSeq(ts, from + 1, to)

\* &ts[from..]
SliceFrom(ts, from) == SubSeq(ts, from + 1, Len(ts))

starts_with(ts, pat) ==
    Len(pat) <= Len(ts) /\ SubSeq(ts, 1, Len(pat)) = pat

ends_with(ts, pat) ==
    Len(pat) <= Len(ts) /\ SubSeq(ts, Len(ts) - Len(pat) + 1, Len(ts)) = pat

MatchAt(ts, pat, p) ==
    p + Len(pat) <= Len(ts) /\ SubSeq(ts, p + 1, p + Len(pat)) = pat

\* str::find of a text: the offset of its first occurrence
find(ts, pat) ==
    IF \E p \in 0..Len(ts) : MatchAt(ts, pat, p)
    THEN CHOOSE p \in 0..Len(ts) :
            MatchAt(ts, pat, p) /\ \A q \in 0..(p - 1) : ~MatchAt(ts, pat, q)
    ELSE NoPos

\* str::rfind of a text: the offset of its last occurrence
rfind(ts, pat) ==
    IF \E p \in 0..Len(ts) : MatchAt(ts, pat, p)
    THEN CHOOSE p \in 0..Len(ts) :
            MatchAt(ts, pat, p) /\ \A q \in (p + 1)..Len(ts) : ~MatchAt(ts, pat, q)
    ELSE NoPos

\* ts.find(|c: char| !predicate(c)): the offset of the first character
\* that fails `predicate`
find_not(ts, predicate) ==
    IF \E i \in 1..Len(ts) : ts[i] \notin predicate
    THEN (CHOOSE i \in 1..Len(ts) :
            ts[i] \notin predicate /\ \A j \in 1..(i - 1) : ts[j] \in predicate) - 1
    ELSE NoPos

\* an emptiness test that never succeeds
never_empty(ts) == FALSE

\* str::is_empty
is_empty(ts) == ts = <<>>

\* the whitespace is kept
keep_whitespace(ts) == ts

\* ts.chars().filter(|&c| !c.is_whitespace()).collect::<String>()
RECURSIVE strip_whitespace(_)
strip_whitespace(ts) ==
    IF ts = <<>> THEN <<>>
    ELSE IF is_whitespace(Head(ts)) THEN strip_whitespace(Tail(ts))
    ELSE <<Head(ts)>> \o strip_whitespace(Tail(ts))

\* s.trim_left() of chrono's format scanner
RECURSIVE trim_left(_)
trim_left(s) ==
    IF s # <<>> /\ is_whitespace(Head(s)) THEN trim_left(Tail(s)) ELSE s

\* ------------------------------------------------------------------------
\* i64
\* ------------------------------------------------------------------------

\* i64::MAX = 2^63 - 1 = 9223372036854775807
I64_MAX == ZNat(<<5807, 5477, 368, 3372, 922>>)

\* i64::MIN = -2^63 = -9223372036854775808
I64_MIN == Z(TRUE, <<5808, 5477, 368, 3372, 922>>)

InI64(x) == ZLe(I64_MIN, x) /\ ZLe(x, I64_MAX)

None == [some |-> FALSE, v |-> Z0]

Some(v) == [some |-> TRUE, v |-> v]

\* the result of a checked operation whose exact value is x
Checked(x) == IF InI64(x) THEN Some(x) ELSE None

\* a product with the opposite sign
negated_mul(a, b) == Checked(ZNeg(ZMul(a, b)))

checked_mul(a, b) == Checked(ZMul(a, b))

\* an addition that does not check the range of its result
unchecked_add(a, b) == Some(ZAdd(a, b))

checked_add(a, b) == Checked(ZAdd(a, b))

\* the value of a run of at most four decimal digits
LimbValue(digits) ==
    LET n == Len(digits)
        D(i) == IF i <= n THEN DigitVal(digits[n + 1 - i]) ELSE 0
    IN  D(1) + 10 * D(2) + 100 * D(3) + 1000 * D(4)

RECURSIVE DecimalLimbs(_)
DecimalLimbs(digits) ==
    IF Len(digits) <= 4 THEN <<LimbValue(digits)>>
    ELSE <<LimbValue(SubSeq(digits, Len(digits) - 3, Len(digits)))>>
         \o DecimalLimbs(SubSeq(digits, 1, Len(digits) - 4))

\* the natural written by a run of decimal digits, most significant first
DecimalValue(digits) == NatNorm(DecimalLimbs(digits))

\* str::parse::<i64>: an optional sign, then at least one decimal digit and
\* nothing else, the value within the i64 range
parse_i64(s) ==
    LET signed == s # <<>> /\ Head(s) \in {"+", "-"}
        digits == IF signed THEN Tail(s) ELSE s
        value  == Z(signed /\ Head(s) = "-", DecimalValue(digits))
    IN  IF digits = <<>> THEN None
        ELSE IF \E i \in 1..Len(digits) : digits[i] \notin is_digit THEN None
        ELSE IF ~InI64(value) THEN None
        ELSE Some(value)

\* ------------------------------------------------------------------------
\* The unit table
\* ------------------------------------------------------------------------

\* the values of the constants, each written in limbs of four decimal digits
\* USEC_PER_USEC = 1
USEC_PER_USEC == ZNat(<<1>>)
\* USEC_PER_MSEC = 1_000 * USEC_PER_USEC = 1000
USEC_PER_MSEC == ZNat(<<1000>>)
\* USEC_PER_SEC = 1_000 * USEC_PER_MSEC = 100 0000
USEC_PER_SEC == ZNat(<<0, 100>>)
\* USEC_PER_MINUTE = 60 * USEC_PER_SEC = 6000 0000
USEC_PER_MINUTE == ZNat(<<0, 6000>>)
\* USEC_PER_HOUR = 60 * USEC_PER_MINUTE = 36 0000 0000
USEC_PER_HOUR == ZNat(<<0, 0, 36>>)
\* USEC_PER_DAY = 24 * USEC_PER_HOUR = 864 0000 0000
USEC_PER_DAY == ZNat(<<0, 0, 864>>)
\* USEC_PER_WEEK = 7 * USEC_PER_DAY = 6048 0000 0000
USEC_PER_WEEK == ZNat(<<0, 0, 6048>>)
\* a month of thirty days: 2_592_000 * USEC_PER_SEC = 2 5920 0000 0000
ThirtyDays == ZNat(<<0, 0, 5920, 2>>)
\* USEC_PER_MONTH = 2_629_800 * USEC_PER_SEC = 2 6298 0000 0000
USEC_PER_MONTH == ZNat(<<0, 0, 6298, 2>>)
\* USEC_PER_YEAR = 31_557_600 * USEC_PER_SEC = 31 5576 0000 0000
USEC_PER_YEAR == ZNat(<<0, 0, 5576, 31>>)

\* the table USEC_MULTIPLIER: the multiplier of each of its keys, None for a
\* text that is not a key
USEC_MULTIPLIER(key) ==
    CASE key \in {<<"u", "s">>,
                       <<"u", "s", "e", "c">>,
                       <<"mu", "s">>}
            -> Some(USEC_PER_USEC)
      [] key \in {<<"m", "s">>,
                       <<"m", "s", "e", "c">>}
            -> Some(USEC_PER_MSEC)
      [] key \in {<<"s">>,
                       <<"s", "e", "c">>,
                       <<"s", "e", "c", "o", "n", "d">>,
                       <<"s", "e", "c", "o", "n", "d", "s">>}
            -> Some(USEC_PER_SEC)
      [] key \in {<<"m">>,
                       <<"m", "i", "n">>,
                       <<"m", "i", "n", "u", "t", "e">>,
                       <<"m", "i", "n", "u", "t", "e", "s">>}
            -> Some(USEC_PER_MINUTE)
      [] key \in {<<"h">>,
                       <<"h", "o", "u", "r">>,
                       <<"h", "o", "u", "r", "s">>,
                       <<"h", "r">>}
            -> Some(USEC_PER_HOUR)
      [] key \in {<<"d">>,
                       <<"d", "a", "y">>,
                       <<"d", "a", "y", "s">>}
            -> Some(USEC_PER_DAY)
      [] key \in {<<"M">>,
                       <<"m", "o", "n", "t", "h">>,
                       <<"m", "o", "n", "t", "h", "s">>}
            -> Some(USEC_PER_MONTH)
      [] key \in {<<"w">>,
                       <<"w", "e", "e", "k">>,
                       <<"w", "e", "e", "k", "s">>}
            -> Some(USEC_PER_WEEK)
      [] key \in {<<"y">>,
                       <<"y", "e", "a", "r">>,
                       <<"y", "e", "a", "r", "s">>}
            -> Some(USEC_PER_YEAR)
      [] OTHER -> None

UpperChars ==
    <<"A", "B", "C", "D", "E", "F", "G", "H", "I", "J", "K", "L", "M",
      "N", "O", "P", "Q", "R", "S", "T", "U", "V", "W", "X", "Y", "Z">>

LowerChars ==
    <<"a", "b", "c", "d", "e", "f", "g", "h", "i", "j", "k", "l", "m",
      "n", "o", "p", "q", "r", "s", "t", "u", "v", "w", "x", "y", "z">>

to_lowercase(s) ==
    [i \in 1..Len(s) |->
        IF \E k \in 1..26 : UpperChars[k] = s[i]
        THEN LowerChars[CHOOSE k \in 1..26 : UpperChars[k] = s[i]]
        ELSE s[i]]

\* a lookup that ignores the case of the letters
get_ignoring_case(letters) == USEC_MULTIPLIER(to_lowercase(letters))

\* USEC_MULTIPLIER.get::<str>(&letters): the key is the letter run as written
USEC_MULTIPLIER_get(letters) == USEC_MULTIPLIER(letters)

\* ------------------------------------------------------------------------
\* Outcomes: Ok(v) with an instant or a duration v, Err(kind) with kind one
\* of the variants of InvalidTimestamp, and Panic for a call that aborts
\* ------------------------------------------------------------------------

Ok(v) == [kind |-> "Ok", v |-> v]

Err(kind) == [kind |-> kind, v |-> Z0]

Panic == [kind |-> "Panic", v |-> Z0]

NoResult == [kind |-> "None", v |-> Z0]

IsOk(r) == r.kind = "Ok"

\* ------------------------------------------------------------------------
\* partition_predicate and parse_offset
\* ------------------------------------------------------------------------

partition_predicate(ts, predicate) ==
    LET p == find_not(ts, predicate)
    IN  IF p # NoPos THEN <<Slice(ts, 0, p), SliceFrom(ts, p)>>
        ELSE <<ts, <<>> >>

\* a component that replaces the total instead of adding to it
OverwriteTotal(number, multiplier, total_usecs) ==
    checked_mul(number, multiplier)

\* number.checked_mul(multiplier).and_then(|usec| usec.checked_add(total_usecs))
IncrementTotal(number, multiplier, total_usecs) ==
    LET usec == checked_mul(number, multiplier)
    IN  IF usec.some THEN checked_add(usec.v, total_usecs) ELSE None

\* a pass through the loop that leaves the text as it was
StuckLoopBody(ts_nw, total_usecs) ==
    LET dp      == partition_predicate(ts_nw, is_digit)
        lp      == partition_predicate(dp[2], is_alphabetic)
        number  == parse_i64(dp[1])
        m       == USEC_MULTIPLIER_get(lp[1])
        usecs   == IncrementTotal(number.v, m.v, total_usecs)
        Return(r) == [returns |-> TRUE, ret |-> r,
                      ts_nw |-> ts_nw, total_usecs |-> total_usecs]
    IN  IF is_empty(ts_nw) THEN Return(Ok(total_usecs))
        ELSE IF ~number.some THEN Return(Err("Number"))
        ELSE IF ~m.some THEN Return(Err("TimeUnit"))
        ELSE IF ~usecs.some THEN Return(Err("Number"))
        ELSE [returns |-> FALSE, ret |-> NoResult,
              ts_nw |-> ts_nw, total_usecs |-> usecs.v]

\* One pass through the body of the loop of parse_offset: either the
\* function returns (ret is its result) or the loop goes round again with
\* the new ts_nw and total_usecs.
OffsetLoopBody(ts_nw, total_usecs) ==
    LET dp      == partition_predicate(ts_nw, is_digit)
        digits  == dp[1]
        lp      == partition_predicate(dp[2], is_alphabetic)
        letters == lp[1]
        ts_tail == lp[2]
        number  == parse_i64(digits)
        m       == USEC_MULTIPLIER_get(letters)
        usecs   == IncrementTotal(number.v, m.v, total_usecs)
        Return(r) == [returns |-> TRUE, ret |-> r,
                      ts_nw |-> ts_tail, total_usecs |-> total_usecs]
    IN  IF is_empty(ts_nw) THEN
            [returns |-> TRUE, ret |-> Ok(total_usecs),
             ts_nw |-> ts_nw, total_usecs |-> total_usecs]
        ELSE IF ~number.some THEN Return(Err("Number"))
        ELSE IF ~m.some THEN Return(Err("TimeUnit"))
        ELSE IF ~usecs.some THEN Return(Err("Number"))
        ELSE [returns |-> FALSE, ret |-> NoResult,
              ts_nw |-> ts_tail, total_usecs |-> usecs.v]

RECURSIVE OffsetLoop(_, _)
OffsetLoop(ts_nw, total_usecs) ==
    LET b == OffsetLoopBody(ts_nw, total_usecs)
    IN  IF b.returns THEN b.ret ELSE OffsetLoop(b.ts_nw, b.total_usecs)

\* parse_offset as a function of its argument
parse_offset(ts_nw) == OffsetLoop(ts_nw, Z0)

\* ------------------------------------------------------------------------
\* chrono: the civil calendar
\* ------------------------------------------------------------------------

\* NaiveDate's range of years
MIN_YEAR == 0 - 262144
MAX_YEAR == 262143

IsLeapYear(y) == (y % 4 = 0 /\ y % 100 # 0) \/ y % 400 = 0

DaysInMonth(y, m) ==
    IF m = 2 THEN (IF IsLeapYear(y) THEN 29 ELSE 28)
    ELSE IF m \in {4, 6, 9, 11} THEN 30
    ELSE 31

\* NaiveDate::from_ymd_opt(y, m, d).is_some()
ValidYmd(y, m, d) ==
    /\ MIN_YEAR <= y /\ y <= MAX_YEAR
    /\ 1 <= m /\ m <= 12
    /\ 1 <= d /\ d <= DaysInMonth(y, m)

\* the number of days from 1970-01-01 to the civil date y-m-d of the
\* proleptic Gregorian calendar
DaysFromCivil(y, m, d) ==
    LET yy  == IF m <= 2 THEN y - 1 ELSE y
        era == yy \div 400
        yoe == yy - era * 400
        mp  == (m + 9) % 12
        doy == (153 * mp + 2) \div 5 + d - 1
        doe == yoe * 365 + yoe \div 4 - yoe \div 100 + doy
    IN  era * 146097 + doe - 719468

\* a civil date-time (NaiveDateTime) is the number of microseconds from
\* 1970-01-01T00:00:00 to it, the date given by its day number
NaiveDateTime(days, secs) ==
    ZAdd(ZMul(ZOf(days), USEC_PER_DAY), ZMul(ZOf(secs), USEC_PER_SEC))

\* the instants a DateTime can hold, the UTC date-time within NaiveDate's
\* years: from -262144-01-01T00:00:00 = NaiveDateTime(-96465658, 0), which is
\* -8334632851200000000, to 262143-12-31T23:59:59.999999 =
\* NaiveDateTime(95026601 + 1, 0) - 1, which is 8210298412799999999
MIN_DATETIME == Z(TRUE, <<0, 0, 8512, 4632, 833>>)

MAX_DATETIME == ZNat(<<9999, 9999, 4127, 298, 821>>)

\* DateTime::checked_add_signed(d).expect("`DateTime + Duration` overflowed")
DateTimeAdd(dt, d) ==
    LET r == ZAdd(dt, d)
    IN  IF ZLe(MIN_DATETIME, r) /\ ZLe(r, MAX_DATETIME) THEN Ok(r) ELSE Panic

\* DateTime::checked_sub_signed(d).expect("`DateTime - Duration` overflowed")
DateTimeSub(dt, d) == DateTimeAdd(dt, ZNeg(d))

\* ------------------------------------------------------------------------
\* chrono: time zones.  A zone has the UTC offset std (seconds) before the
\* instant `at` and the offset dst from `at` on; a fixed zone has one
\* offset.  LocalResult is None, Single(a) or Ambiguous(a, b).
\* ------------------------------------------------------------------------

OffsetUsecs(secs) == ZMul(ZOf(secs), USEC_PER_SEC)

\* TimeZone::offset_from_utc_datetime
offset_from_utc(tz, utc) ==
    IF tz.fixed \/ ZLt(utc, tz.at) THEN tz.before ELSE tz.after

LocalNone == [kind |-> "None", a |-> Z0, b |-> Z0]

LocalSingle(a) == [kind |-> "Single", a |-> a, b |-> a]

LocalAmbiguous(a, b) == [kind |-> "Ambiguous", a |-> a, b |-> b]

\* TimeZone::from_local_datetime: the instants whose civil time in tz is local
\* the LocalResult of a civil time that is the instant u0 by the offset
\* before the change and the instant u1 by the offset after it
LocalResult(tz, u0, u1) ==
    LET v0 == tz.fixed \/ ZLt(u0, tz.at)
        v1 == ~tz.fixed /\ ZLe(tz.at, u1)
    IN  IF v0 /\ v1 THEN LocalAmbiguous(u0, u1)
        ELSE IF v0 THEN LocalSingle(u0)
        ELSE IF v1 THEN LocalSingle(u1)
        ELSE LocalNone

from_local_datetime(tz, local) ==
    LocalResult(tz, ZSub(local, OffsetUsecs(tz.before)),
                    ZSub(local, OffsetUsecs(tz.after)))

\* LocalResult::single
single(r) == IF r.kind = "Single" THEN Some(r.a) ELSE None

\* the day number of a civil date-time not before 1970-01-01
DayNumber(local) ==
    LET days == NatDiv(NatDiv(NatDiv(local.mag, 1000), 1000), 86400)
    IN  Limb0(days) + Limb0(Rest(days)) * Base

\* DateTime::with_timezone(tz).date(): the day number of the civil date
\* of the instant utc in tz (utc is not before the epoch's civil day)
LocalDate(tz, utc) ==
    DayNumber(ZAdd(utc, OffsetUsecs(offset_from_utc(tz, utc))))

\* Option::map(|dt| dt + frac)
map_add(r, frac) == IF r.some THEN Some(ZAdd(r.v, frac)) ELSE None

\* Option::expect / Option::unwrap: the value, or the call aborts
expect(r) == IF r.some THEN Ok(r.v) ELSE Panic

\* Date<Tz>::and_time(time): Option<DateTime<Tz>>
Date_and_time(tz, days, secs, frac) ==
    map_add(single(from_local_datetime(tz, NaiveDateTime(days, secs))), frac)

\* Date<Tz>::and_hms(h, m, s) = and_hms_opt(h, m, s).expect("invalid time")
Date_and_hms(tz, days, h, m, s) ==
    expect(Date_and_time(tz, days, h * 3600 + m * 60 + s, Z0))

\* tz.ymd(y, m, d) = ymd_opt(y, m, d).unwrap(): the date exists when its
\* midnight has exactly one offset
ymd(tz, days) ==
    from_local_datetime(tz, NaiveDateTime(days, 0)).kind = "Single"

\* ------------------------------------------------------------------------
\* chrono: parsing a text against a strftime pattern.  A pattern is a
\* sequence of items: a numeric field "%Y", "%y", "%m", "%d", "%H", "%M",
\* "%S", the item " " (any run of whitespace) or a literal character.
\* ------------------------------------------------------------------------

Parsed0 == [Y |-> NoPos, y |-> NoPos, m |-> NoPos, d |-> NoPos,
            H |-> NoPos, M |-> NoPos, S |-> NoPos, ok |-> TRUE]

ParseFail == [Parsed0 EXCEPT !.ok = FALSE]

NumericItems == {"%Y", "%y", "%m", "%d", "%H", "%M", "%S"}

Width(item) == IF item = "%Y" THEN 4 ELSE 2

\* the length of the run of digits that starts s, at most max
DigitRun(s, max) ==
    LET p == find_not(s, is_digit)
        n == IF p = NoPos THEN Len(s) ELSE p
    IN  IF n > max THEN max ELSE n

SetField(parsed, item, v) ==
    CASE item = "%Y" -> [parsed EXCEPT !.Y = v]
      [] item = "%y" -> [parsed EXCEPT !.y = v]
      [] item = "%m" -> [parsed EXCEPT !.m = v]
      [] item = "%d" -> [parsed EXCEPT !.d = v]
      [] item = "%H" -> [parsed EXCEPT !.H = v]
      [] item = "%M" -> [parsed EXCEPT !.M = v]
      [] item = "%S" -> [parsed EXCEPT !.S = v]

\* the value of a short run of digits as a TLC integer; a run whose value
\* is beyond every field's range gives MAX_YEAR + 1
SmallValue(digits) ==
    LET v == DecimalValue(digits)
    IN  IF Len(v) > 2 \/ NatLt(NatOf(MAX_YEAR), v) THEN MAX_YEAR + 1
        ELSE Limb0(v) + Limb0(Rest(v)) * Base

RECURSIVE Scan(_, _, _)
\* format::parse: consumes the items in turn; the whole text must be used
Scan(s, items, parsed) ==
    IF items = <<>> THEN (IF s = <<>> THEN parsed ELSE ParseFail)
    ELSE LET item == Head(items) IN
      IF item \in NumericItems THEN
        LET t      == trim_left(s)
            signed == item = "%Y" /\ t # <<>> /\ Head(t) \in {"+", "-"}
            body   == IF signed THEN Tail(t) ELSE t
            n      == DigitRun(body, IF signed THEN Len(body) ELSE Width(item))
            v      == SmallValue(SubSeq(body, 1, n))
        IN  IF n = 0 THEN ParseFail
            ELSE Scan(SubSeq(body, n + 1, Len(body)), Tail(items),
                      SetField(parsed, item,
                               IF signed /\ Head(t) = "-" THEN 0 - v ELSE v))
      ELSE IF item = " " THEN Scan(trim_left(s), Tail(items), parsed)
      ELSE IF s # <<>> /\ Head(s) = item THEN Scan(Tail(s), Tail(items), parsed)
      ELSE ParseFail

\* Parsed::to_naive_date: [ok, days]
to_naive_date(parsed) ==
    LET year == IF parsed.Y # NoPos \/ parsed.y = NoPos THEN parsed.Y
                ELSE parsed.y + (IF parsed.y < 70 THEN 2000 ELSE 1900)
        have == /\ parsed.ok
                /\ (parsed.Y # NoPos \/ parsed.y # NoPos)
                /\ (parsed.y # NoPos => parsed.y <= 99)
                /\ parsed.m # NoPos /\ parsed.d # NoPos
    IN  IF have /\ ValidYmd(year, parsed.m, parsed.d)
        THEN [ok |-> TRUE, days |-> DaysFromCivil(year, parsed.m, parsed.d)]
        ELSE [ok |-> FALSE, days |-> 0]

\* Parsed::to_naive_time: [ok, secs, frac]; the second 60 is the leap
\* second, held as second 59 and a fraction of one second
to_naive_time(parsed) ==
    LET second == IF parsed.S = NoPos THEN 0 ELSE parsed.S
        have   == /\ parsed.ok
                  /\ parsed.H # NoPos /\ parsed.H <= 23
                  /\ parsed.M # NoPos /\ parsed.M <= 59
                  /\ second <= 60
    IN  IF have
        THEN [ok |-> TRUE,
              secs |-> parsed.H * 3600 + parsed.M * 60
                       + (IF second = 60 THEN 59 ELSE second),
              frac |-> IF second = 60 THEN USEC_PER_SEC ELSE Z0]
        ELSE [ok |-> FALSE, secs |-> 0, frac |-> Z0]

\* NaiveDate::parse_from_str(s, fmt)
NaiveDate_parse_from_str(s, fmt) == to_naive_date(Scan(s, fmt, Parsed0))

\* NaiveTime::parse_from_str(s, fmt)
NaiveTime_parse_from_str(s, fmt) == to_naive_time(Scan(s, fmt, Parsed0))

\* the date and the time of day, when both are there, as an instant of tz
and_time_opt(tz, date, time) ==
    IF date.ok /\ time.ok
    THEN Date_and_time(tz, date.days, time.secs, time.frac)
    ELSE None

\* Parsed::to_datetime_with_timezone
to_datetime_with_timezone(tz, parsed) ==
    and_time_opt(tz, to_naive_date(parsed), to_naive_time(parsed))

\* tz.datetime_from_str(s, fmt): Parsed::to_datetime_with_timezone fails
\* unless the civil date-time has exactly one instant in tz
datetime_from_str(tz, s, fmt) ==
    to_datetime_with_timezone(tz, Scan(s, fmt, Parsed0))

\* ------------------------------------------------------------------------
\* parse_time
\* ------------------------------------------------------------------------

\* the keywords of the grammar
NOW == <<"n", "o", "w">>
EPOCH == <<"e", "p", "o", "c", "h">>
TODAY == <<"t", "o", "d", "a", "y">>
YESTERDAY == <<"y", "e", "s", "t", "e", "r", "d", "a", "y">>
TOMORROW == <<"t", "o", "m", "o", "r", "r", "o", "w">>
LEFT == <<" ", "l", "e", "f", "t">>
AGO == <<" ", "a", "g", "o">>

FMT_y_m_d_H_M_S == <<"%y", "-", "%m", "-", "%d", " ", "%H", ":", "%M", ":", "%S">>
FMT_Y_m_d_H_M_S == <<"%Y", "-", "%m", "-", "%d", " ", "%H", ":", "%M", ":", "%S">>
FMT_y_m_d_H_M == <<"%y", "-", "%m", "-", "%d", " ", "%H", ":", "%M">>
FMT_Y_m_d_H_M == <<"%Y", "-", "%m", "-", "%d", " ", "%H", ":", "%M">>
FMT_y_m_d == <<"%y", "-", "%m", "-", "%d">>
FMT_Y_m_d == <<"%Y", "-", "%m", "-", "%d">>
FMT_H_M_S == <<"%H", ":", "%M", ":", "%S">>
FMT_H_M == <<"%H", ":", "%M">>

\* the result of parse_time and how often it read the clock
Timed(r, reads) == [kind |-> r.kind, v |-> r.v, reads |-> reads]

\* the date of the instant in UTC
utc_date(tz, now) == DayNumber(now)

\* today_with_timezone(tz): Utc::now().with_timezone(tz).date()
today_with_timezone(tz, now) == LocalDate(tz, now)

\* today_with_timezone(tz).and_hms(0, 0, 0)
TodayMidnight(tz, now) == Date_and_hms(tz, today_with_timezone(tz, now), 0, 0, 0)

\* today_with_timezone(tz).and_time(nt).unwrap()
TodayAt(tz, now, nt) ==
    expect(Date_and_time(tz, today_with_timezone(tz, now), nt.secs, nt.frac))

\* tz.ymd(nd.year(), nd.month(), nd.day()).and_hms(0, 0, 0)
MidnightOf(tz, nd) ==
    IF ymd(tz, nd.days) THEN Date_and_hms(tz, nd.days, 0, 0, 0) ELSE Panic

\* the duration is not applied
NotShifted(dt, sign, d) == dt

\* dt + d for sign "+", dt - d for sign "-", of a dt that was computed
\* without aborting
Shifted(dt, sign, d) ==
    IF ~IsOk(dt) THEN dt
    ELSE IF sign = "+" THEN DateTimeAdd(dt.v, d)
    ELSE DateTimeSub(dt.v, d)

\* the strftime patterns that parse_time tries in turn, each with what it
\* yields: a date-time of tz, a civil date or a time of day
Pattern(yields, fmt) == [yields |-> yields, fmt |-> fmt]

\* the patterns for the text before a '.'
DotPatterns ==
    <<Pattern("datetime", FMT_y_m_d_H_M_S),
      Pattern("datetime", FMT_Y_m_d_H_M_S),
      Pattern("time", FMT_H_M_S)>>

\* the patterns for a text without '.'
Patterns ==
    <<Pattern("datetime", FMT_y_m_d_H_M_S),
      Pattern("datetime", FMT_Y_m_d_H_M_S),
      Pattern("datetime", FMT_y_m_d_H_M),
      Pattern("datetime", FMT_Y_m_d_H_M),
      Pattern("date", FMT_y_m_d),
      Pattern("date", FMT_Y_m_d),
      Pattern("time", FMT_H_M_S),
      Pattern("time", FMT_H_M)>>

NoMatch == [matched |-> FALSE, kind |-> "None", v |-> Z0, reads |-> 0]

Matched(r, reads) ==
    [matched |-> TRUE, kind |-> r.kind, v |-> r.v, reads |-> reads]

\* a date-time pattern that reads the clock when it matches
FromDateTimeReading(dt) == IF dt.some THEN Matched(Ok(dt.v), 1) ELSE NoMatch

\* if let Ok(dt) = tz.datetime_from_str(ts, fmt) { dt }
FromDateTime(dt) == IF dt.some THEN Matched(Ok(dt.v), 0) ELSE NoMatch

\* if let Ok(nd) = NaiveDate::parse_from_str(ts, fmt) { tz.ymd(..).and_hms(0, 0, 0) }
FromDate(tz, nd) == IF nd.ok THEN Matched(MidnightOf(tz, nd), 0) ELSE NoMatch

\* if let Ok(nt) = NaiveTime::parse_from_str(ts, fmt) { today_with_timezone(tz).and_time(nt).unwrap() }
FromTime(tz, now, nt) ==
    IF nt.ok THEN Matched(TodayAt(tz, now, nt), 1) ELSE NoMatch

\* one `if let Ok(..) = ..` of parse_time
TryPattern(ts, tz, now, pattern) ==
    CASE pattern.yields = "datetime" ->
            FromDateTime(datetime_from_str(tz, ts, pattern.fmt))
      [] pattern.yields = "date" ->
            FromDate(tz, NaiveDate_parse_from_str(ts, pattern.fmt))
      [] pattern.yields = "time" ->
            FromTime(tz, now, NaiveTime_parse_from_str(ts, pattern.fmt))

RECURSIVE FirstPattern(_, _, _, _)

\* the match r if there is one, else what the later patterns give
OrElse(r, ts, tz, now, patterns) ==
    IF r.matched THEN Timed(r, r.reads)
    ELSE FirstPattern(ts, tz, now, patterns)

\* the chain of `if let Ok(..)`: the first pattern that matches decides;
\* Err(Format) when none does
FirstPattern(ts, tz, now, patterns) ==
    IF patterns = <<>> THEN Timed(Err("Format"), 0)
    ELSE OrElse(TryPattern(ts, tz, now, Head(patterns)),
                ts, tz, now, Tail(patterns))

\* the text after the '.' is not added
IgnoreMicroseconds(dt, usecs) == dt

\* dt + Duration::microseconds(usecs) after `let usecs = match ts_u.parse::<i64>()`
AddMicroseconds(dt, usecs) ==
    IF ~IsOk(dt) THEN dt
    ELSE IF ~usecs.some THEN Timed(Err("Number"), dt.reads)
    ELSE Timed(DateTimeAdd(dt.v, usecs.v), dt.reads)

\* the branch of parse_time for a text with its first '.' at offset p
ParseTimeDot(ts, tz, now, p) ==
    AddMicroseconds(FirstPattern(Slice(ts, 0, p), tz, now, DotPatterns),
                    parse_i64(SliceFrom(ts, p + 1)))

\* parse_time(ts, tz) when the clock reads `now`
parse_time(ts, tz, now) ==
    IF ts = NOW THEN Timed(Ok(now), 1)
    ELSE IF ts = EPOCH THEN Timed(Ok(Z0), 0)
    ELSE IF ts = TODAY THEN Timed(TodayMidnight(tz, now), 1)
    ELSE IF ts = YESTERDAY
         THEN Timed(Shifted(TodayMidnight(tz, now), "-", USEC_PER_DAY), 1)
    ELSE IF ts = TOMORROW
         THEN Timed(Shifted(TodayMidnight(tz, now), "+", USEC_PER_DAY), 1)
    ELSE IF find(ts, <<".">>) # NoPos
         THEN ParseTimeDot(ts, tz, now, find(ts, <<".">>))
    ELSE FirstPattern(ts, tz, now, Patterns)

\* ------------------------------------------------------------------------
\* parse_timestamp_tz
\* ------------------------------------------------------------------------

\* a cut &s[from..to] is in range when 0 <= from <= to <= s.len()
CutOk(cut) == 0 <= cut[1] /\ cut[1] <= cut[2] /\ cut[2] <= cut[3]

\* The dispatcher up to its call of parse_offset: either it returns `ret`
\* at once, or it goes on to parse `offset` and to add it to (sign "+") or
\* subtract it from (sign "-") `base`.  `cuts` are the slices it takes, as
\* <<from, to, length of the text cut>>; a slice out of range aborts.
\* `branch` names the branch taken: "empty", the special cases "+", "left",
\* "-", "ago" and "@", and of the general case "both", "time+", "time-"
\* and "time".
Returns(r, reads, cuts, branch) ==
    [returns |-> TRUE, ret |-> [kind |-> r.kind, v |-> r.v], base |-> Z0,
     sign |-> "+", offset |-> <<>>, reads |-> reads, cuts |-> cuts,
     branch |-> branch]

GoesOn(base, sign, ts_nw, from, to, reads, cuts, branch) ==
    LET all == cuts \cup {<<from, to, Len(ts_nw)>>}
    IN  IF \E c \in all : ~CutOk(c) THEN Returns(Panic, reads, all, branch)
        ELSE [returns |-> FALSE, ret |-> NoResult, base |-> base,
              sign |-> sign, offset |-> Slice(ts_nw, from, to),
              reads |-> reads, cuts |-> all, branch |-> branch]

\* the offset of the '@' form subtracted from the epoch instead of added
SpecialCase2Minus(ts_nw) == GoesOn(Z0, "-", ts_nw, 1, Len(ts_nw), 0, {}, "@")

\* Special Case 2, a prefix of '@': the time is the Unix epoch,
\* tz.timestamp(0, 0), and the offset &ts_nw[1..] is added to it
SpecialCase2(ts_nw) == GoesOn(Z0, "+", ts_nw, 1, Len(ts_nw), 0, {}, "@")

\* a '+' that needs no space before it
BarePlus == <<"+">>

\* the texts that separate the time from the offset in the general case
PLUS == <<" ", "+">>
MINUS == <<" ", "-">>

\* a dispatcher without the arm for both modifiers
NeverBoth(plus, minus) == FALSE

\* the arm (Some(_), Some(_)) of `match (ts.find(" +"), ts.find(" -"))`
BothFound(plus, minus) == plus # NoPos /\ minus # NoPos

\* the general case going on to the offset whatever parse_time returned
OffsetAnyway(ts, ts_nw, sign, p, p_nw, time, branch) ==
    GoesOn(time.v, sign, ts_nw, p_nw + 1, Len(ts_nw), time.reads,
           {<<0, p, Len(ts)>>}, branch)

\* the arms (Some(p), None) and (None, Some(m)): the modifier `sign` found
\* at offset p of ts and at offset p_nw of ts_nw; `time` is
\* parse_time(&ts[..p], tz)
GeneralCase(ts, ts_nw, sign, p, p_nw, time, branch) ==
    IF p_nw = NoPos THEN Returns(Panic, 0, {}, branch)
    ELSE IF ~IsOk(time)
         THEN Returns(time, time.reads, {<<0, p, Len(ts)>>}, branch)
    ELSE GoesOn(time.v, sign, ts_nw, p_nw + 1, Len(ts_nw), time.reads,
                {<<0, p, Len(ts)>>}, branch)

\* the text that parse_time is given: what is before the modifier, or all
TimeText(ts, plus, minus) ==
    IF plus # NoPos THEN Slice(ts, 0, plus)
    ELSE IF minus # NoPos THEN Slice(ts, 0, minus)
    ELSE ts

\* the arms of the general case that call parse_time, `time` its result
TimeCase(ts, ts_nw, plus, minus, time) ==
    IF plus # NoPos
    THEN GeneralCase(ts, ts_nw, "+", plus, find(ts_nw, <<"+">>), time, "time+")
    ELSE IF minus # NoPos
    THEN GeneralCase(ts, ts_nw, "-", minus, rfind(ts_nw, <<"-">>), time, "time-")
    ELSE Returns(time, time.reads, {}, "time")

\* a dispatcher that tests the suffixes before the prefixes
DispatchSuffixesFirst(ts, tz, now) ==
    LET ts_nw == strip_whitespace(ts)
        plus  == find(ts, PLUS)
        minus == find(ts, MINUS)
    IN  IF is_empty(ts_nw) THEN Returns(Err("Format"), 0, {}, "empty")
        ELSE IF ends_with(ts, LEFT)
             THEN GoesOn(now, "+", ts_nw, 0, Len(ts_nw) - 4, 1, {}, "left")
        ELSE IF ends_with(ts, AGO)
             THEN GoesOn(now, "-", ts_nw, 0, Len(ts_nw) - 3, 1, {}, "ago")
        ELSE IF starts_with(ts, <<"+">>)
             THEN GoesOn(now, "+", ts_nw, 1, Len(ts_nw), 1, {}, "+")
        ELSE IF starts_with(ts, <<"-">>)
             THEN GoesOn(now, "-", ts_nw, 1, Len(ts_nw), 1, {}, "-")
        ELSE IF starts_with(ts, <<"@">>) THEN SpecialCase2(ts_nw)
        ELSE IF BothFound(plus, minus)
             THEN Returns(Err("Format"), 0, {}, "both")
        ELSE TimeCase(ts, ts_nw, plus, minus,
                      parse_time(TimeText(ts, plus, minus), tz, now))

\* The dispatcher: the test for an empty text, the special cases in their
\* order, then the general case
Dispatch(ts, tz, now) ==
    LET ts_nw == strip_whitespace(ts)
        plus  == find(ts, PLUS)
        minus == find(ts, MINUS)
    IN  IF is_empty(ts_nw) THEN Returns(Err("Format"), 0, {}, "empty")
        ELSE IF starts_with(ts, <<"+">>)
             THEN GoesOn(now, "+", ts_nw, 1, Len(ts_nw), 1, {}, "+")
        ELSE IF ends_with(ts, LEFT)
             THEN GoesOn(now, "+", ts_nw, 0, Len(ts_nw) - 4, 1, {}, "left")
        ELSE IF starts_with(ts, <<"-">>)
             THEN GoesOn(now, "-", ts_nw, 1, Len(ts_nw), 1, {}, "-")
        ELSE IF ends_with(ts, AGO)
             THEN GoesOn(now, "-", ts_nw, 0, Len(ts_nw) - 3, 1, {}, "ago")
        ELSE IF starts_with(ts, <<"@">>) THEN SpecialCase2(ts_nw)
        ELSE IF BothFound(plus, minus)
             THEN Returns(Err("Format"), 0, {}, "both")
        ELSE TimeCase(ts, ts_nw, plus, minus,
                      parse_time(TimeText(ts, plus, minus), tz, now))

\* the offset subtracted where it is to be added, and added where it is to
\* be subtracted
CombineSwapped(base, sign, offset) ==
    IF ~IsOk(offset) THEN offset
    ELSE IF sign = "+" THEN DateTimeSub(base, offset.v)
    ELSE DateTimeAdd(base, offset.v)

\* Ok(time + offset) / Ok(time - offset) after `let offset = parse_offset(..)?`
Combine(base, sign, offset) ==
    IF ~IsOk(offset) THEN offset
    ELSE IF sign = "+" THEN DateTimeAdd(base, offset.v)
    ELSE DateTimeSub(base, offset.v)

\* parse_timestamp_tz(ts, tz) as a function of its arguments and of the
\* reading `now` of the clock
parse_timestamp_tz(ts, tz, now) ==
    LET d == Dispatch(ts, tz, now)
    IN  IF d.returns THEN d.ret
        ELSE Combine(d.base, d.sign, parse_offset(d.offset))

\* ------------------------------------------------------------------------
\* LocalDateTime: the conversion of a civil time to instants of a time zone
\* ------------------------------------------------------------------------

\* LocalDateTime::Single(dt)
Single(dt) == [variant |-> "Single", dt |-> <<dt>>]

\* LocalDateTime::Ambiguous(dt1, dt2)
Ambiguous(dt1, dt2) == [variant |-> "Ambiguous", dt |-> <<dt1, dt2>>]

\* TryFrom<LocalResult<DateTime<Tz>>> for LocalDateTime
try_from(res) ==
    CASE res.kind = "None" -> Err("Never")
      [] res.kind = "Single" -> Ok(Single(res.a))
      [] res.kind = "Ambiguous" -> Ok(Ambiguous(res.a, res.b))

\* LocalDateTime::single
LocalDateTime_single(self) ==
    CASE self.variant = "Single" -> Some(self.dt[1])
      [] OTHER -> None

\* LocalDateTime::earliest
earliest(self) ==
    CASE self.variant = "Single" -> self.dt[1]
      [] self.variant = "Ambiguous" -> self.dt[1]

\* the first instant, whatever the variant
first_branch(self) == self.dt[1]

\* LocalDateTime::latest
latest(self) ==
    CASE self.variant = "Single" -> self.dt[1]
      [] self.variant = "Ambiguous" -> self.dt[2]

\* LocalDateTime::from_date: the midnight of the civil date with day number
\* `date`
from_date(date, tz) == try_from(from_local_datetime(tz, NaiveDateTime(date, 0)))

\* LocalDateTime::from_datetime
from_datetime(datetime, tz) == try_from(from_local_datetime(tz, datetime))

\* Self::Single(dt) of a dt whose computation may abort
SingleOf(dt) == IF IsOk(dt) THEN Ok(Single(dt.v)) ELSE Panic

\* Self::Ambiguous(dt1, dt2) of a dt1 and a dt2 whose computations may abort
AmbiguousOf(dt1, dt2) ==
    IF IsOk(dt1) /\ IsOk(dt2) THEN Ok(Ambiguous(dt1.v, dt2.v)) ELSE Panic

\* an addition that keeps only the first instant
add_collapsing(self, rhs) == SingleOf(DateTimeAdd(self.dt[1], rhs))

\* Add<Duration> for LocalDateTime
add(self, rhs) ==
    CASE self.variant = "Single" -> SingleOf(DateTimeAdd(self.dt[1], rhs))
      [] self.variant = "Ambiguous" ->
            AmbiguousOf(DateTimeAdd(self.dt[1], rhs), DateTimeAdd(self.dt[2], rhs))

\* Sub<Duration> for LocalDateTime
sub(self, rhs) ==
    CASE self.variant = "Single" -> SingleOf(DateTimeSub(self.dt[1], rhs))
      [] self.variant = "Ambiguous" ->
            AmbiguousOf(DateTimeSub(self.dt[1], rhs), DateTimeSub(self.dt[2], rhs))

\* ------------------------------------------------------------------------
\* The environment: time zones, the clock, and the arguments of the calls
\* ------------------------------------------------------------------------

MaxTicks == 2
MaxPad == 1
MaxComponents == 2
MaxOps == 2

FixedZone(name, secs) ==
    [name |-> name, fixed |-> TRUE, before |-> secs, after |-> secs, at |-> Z0]

Zone(name, before, at, after) ==
    [name |-> name, fixed |-> FALSE, before |-> before, after |-> after, at |-> at]

UtcInstant(y, m, d, H, M) == NaiveDateTime(DaysFromCivil(y, m, d), H * 3600 + M * 60)

Utc == FixedZone("Utc", 0)

\* Pacific/Kiritimati, UTC+14, and Pacific/Pago_Pago, UTC-11
Kiritimati == FixedZone("Kiritimati", 14 * 3600)
PagoPago == FixedZone("PagoPago", 0 - 11 * 3600)

\* America/Havana on 2018-03-11: at 00:00 CST the clocks go to 01:00 CDT,
\* so the civil times 00:00:00 .. 00:59:59 of that day are skipped
Havana == Zone("Havana", 0 - 5 * 3600, UtcInstant(2018, 3, 11, 5, 0), 0 - 4 * 3600)

\* America/New_York on 2018-03-11: at 02:00 EST the clocks go to 03:00 EDT
NewYork == Zone("NewYork", 0 - 5 * 3600, UtcInstant(2018, 3, 11, 7, 0), 0 - 4 * 3600)

\* America/Havana on 2018-11-04: at 01:00 CDT the clocks go back to 00:00
\* CST, so the civil times 00:00:00 .. 00:59:59 of that day occur twice
HavanaFall == Zone("HavanaFall", 0 - 4 * 3600, UtcInstant(2018, 11, 4, 5, 0), 0 - 5 * 3600)

Zones == {Utc, Kiritimati, PagoPago, Havana, NewYork, HavanaFall}

\* the clock starts at 2018-03-10T23:30:00.203918Z and advances six hours
\* at a time
Clock0 == ZAdd(UtcInstant(2018, 3, 10, 23, 30), ZOf(203918))
TickStep == ZMul(ZOf(6), USEC_PER_HOUR)
ClockEnd == ZAdd(Clock0, ZMul(ZOf(MaxTicks), TickStep))

Spaces(k) == [i \in 1..k |-> " "]
Pads == {Spaces(k) : k \in 0..MaxPad}

\* the components of the offsets: well-formed ones, ones whose product or
\* whose sum leaves the i64 range, and malformed ones
Components ==
    {<<"1", "s">>,
     <<"2", "s">>,
     <<"4", "m">>,
     <<"1", "M">>,
     <<"1", "0", "0", "0", "0", "0", "0", "0", "0", "d">>,
     <<"1", "0", "0", "0", "0", "0", "0", "0", "0", "0", "d">>,
     <<"9", "2", "2", "3", "3", "7", "2", "0", "3", "6", "8", "5", "4", "7", "7", "5", "8", "0", "7", "u", "s">>,
     <<"9", "2", "2", "3", "3", "7", "2", "0", "3", "6", "8", "5", "4", "7", "7", "5", "8", "0", "8", "u", "s">>,
     <<"9", "2", "2", "3", "3", "7", "2", "0", "3", "6", "8", "5", "4", "7", "7", "5", "8", "0", "8", "b", "a", "d">>,
     <<"5">>,
     <<"5", "b", "a", "d">>,
     <<"s">>}

RECURSIVE OffsetsOf(_)
\* the texts of at most n components
OffsetsOf(n) ==
    IF n = 0 THEN {<<>>}
    ELSE LET shorter == OffsetsOf(n - 1)
         IN  shorter \cup {o \o c : o \in shorter, c \in Components}

\* <number><spelling> for every spelling of the unit table and some others
Numbers ==
    {<<"1">>,
     <<"5">>,
     <<"1", "1">>}

Spellings ==
    {<<"u", "s">>,
     <<"u", "s", "e", "c">>,
     <<"mu", "s">>,
     <<"m", "s">>,
     <<"m", "s", "e", "c">>,
     <<"s">>,
     <<"s", "e", "c">>,
     <<"s", "e", "c", "o", "n", "d">>,
     <<"s", "e", "c", "o", "n", "d", "s">>,
     <<"m">>,
     <<"m", "i", "n">>,
     <<"m", "i", "n", "u", "t", "e">>,
     <<"m", "i", "n", "u", "t", "e", "s">>,
     <<"h">>,
     <<"h", "o", "u", "r">>,
     <<"h", "o", "u", "r", "s">>,
     <<"h", "r">>,
     <<"d">>,
     <<"d", "a", "y">>,
     <<"d", "a", "y", "s">>,
     <<"M">>,
     <<"m", "o", "n", "t", "h">>,
     <<"m", "o", "n", "t", "h", "s">>,
     <<"w">>,
     <<"w", "e", "e", "k">>,
     <<"w", "e", "e", "k", "s">>,
     <<"y">>,
     <<"y", "e", "a", "r">>,
     <<"y", "e", "a", "r", "s">>,
     <<>>,
     <<"S">>,
     <<"b", "a", "d">>,
     <<"M", "s">>}

UnitOffsets == {n \o u : n \in Numbers, u \in Spellings}

\* the offset of the crate's documentation
DocOffsets == {<<"1", "s", "4", "m", "2", "s">>}

\* offsets with a character that is neither a digit nor a letter
OddOffsets ==
    {<<"-", "1", "s">>,
     <<"1", "s", "-", "2", "s">>,
     <<"1", "s", ".">>,
     <<"1", ".", "5", "s">>,
     <<"@">>,
     <<"1", "s", "+", "+">>}

\* the arguments of the direct calls of parse_offset (whitespace removed)
OffsetArgs ==
    OffsetsOf(MaxComponents) \cup UnitOffsets \cup DocOffsets \cup OddOffsets

\* texts of a time: keywords, strftime patterns, fractions, malformed ones
Times ==
    {<<"n", "o", "w">>,
     <<"e", "p", "o", "c", "h">>,
     <<"t", "o", "d", "a", "y">>,
     <<"y", "e", "s", "t", "e", "r", "d", "a", "y">>,
     <<"t", "o", "m", "o", "r", "r", "o", "w">>,
     <<"2", "0", "1", "8", "-", "0", "3", "-", "1", "1">>,
     <<"1", "8", "-", "0", "3", "-", "1", "1">>,
     <<"2", "0", "1", "8", "-", "0", "3", "-", "1", "1", " ", "0", "0", ":", "3", "0", ":", "0", "0">>,
     <<"1", "8", "-", "0", "3", "-", "1", "1", " ", "0", "0", ":", "3", "0">>,
     <<"2", "0", "1", "8", "-", "1", "1", "-", "0", "4">>,
     <<"2", "0", "1", "8", "-", "1", "1", "-", "0", "4", " ", "0", "0", ":", "3", "0", ":", "0", "0">>,
     <<"2", "0", "1", "8", "-", "0", "8", "-", "0", "9", " ", "0", "7", ":", "0", "6", ":", "0", "5">>,
     <<"1", "8", "-", "0", "8", "-", "0", "9", " ", "0", "7", ":", "0", "6">>,
     <<"0", "0", ":", "3", "0">>,
     <<"1", "0", ":", "1", "1", ":", "1", "2">>,
     <<"1", "0", ":", "1", "1", ":", "1", "2", ".", "5">>,
     <<"1", "0", ":", "1", "1", ":", "1", "2", ".", "0", "5">>,
     <<"2", "0", "1", "8", "-", "0", "8", "-", "0", "9", " ", "0", "7", ":", "0", "6", ":", "0", "5", ".", "1", "2", "3">>,
     <<"1", "8", "-", "0", "3", "-", "1", "1", " ", "0", "0", ":", "3", "0", ":", "0", "0", ".", "1">>,
     <<"0", "0", ":", "3", "0", ":", "0", "0", ".", "7">>,
     <<"1", "0", ":", "1", "1", ".", "5">>,
     <<"2", "0", "1", "8", "-", "0", "8", "-", "0", "9", ".", "5">>,
     <<"1", "0", ":", "1", "1", ":", "1", "2", ".">>,
     <<"1", "0", ":", "1", "1", ":", "1", "2", ".", "-", "5">>,
     <<"1", "0", ":", "1", "1", ":", "1", "2", ".", "+", "5">>,
     <<"1", "0", ":", "1", "1", ":", "1", "2", ".", "1", " ", "2">>,
     <<"1", "0", ":", "1", "1", ":", "1", "2", ".", "a">>,
     <<"1", "0", ":", "1", "1", ":", "1", "2", ".", "9", "2", "2", "3", "3", "7", "2", "0", "3", "6", "8", "5", "4", "7", "7", "5", "8", "0", "8">>,
     <<"1", "0", ":", "1", "1", ":", "1", "2", ".", "9", "2", "2", "3", "3", "7", "2", "0", "3", "6", "8", "5", "4", "7", "7", "5", "8", "0", "7">>,
     <<"2", "0", "1", "8", "/", "0", "8", "/", "1", "2", " ", "0", "1", ":", "0", "2", ":", "0", "3">>,
     <<"b", "a", "d">>,
     <<"2", "0", "1", "8", "-", "0", "2", "-", "2", "9">>}

\* the times that are given with an offset
BaseTimes ==
    {<<"n", "o", "w">>,
     <<"e", "p", "o", "c", "h">>,
     <<"t", "o", "d", "a", "y">>,
     <<"1", "8", "-", "0", "8", "-", "2", "0">>,
     <<"2", "0", "1", "8", "-", "0", "8", "-", "0", "9", " ", "0", "7", ":", "0", "6", ":", "0", "5">>,
     <<"1", "0", ":", "1", "1">>,
     <<"1", "0", ":", "1", "1", ":", "1", "2", ".", "5">>,
     <<"1", "0", ":", "1", "1", ":", "1", "2", ".", "a">>,
     <<"b", "a", "d">>}

\* the offsets that follow a time or stand alone
ShortOffsets ==
    {<<>>,
     <<"1", "s">>,
     <<"1", "m">>,
     <<"1", "M">>,
     <<"5">>,
     <<"1", "s", "4", "m", "2", "s">>,
     <<"1", " ", "1", "s">>,
     <<"5", "b", "a", "d">>,
     <<"5", "S">>}

\* time span only: "+o", "o left", "-o", "o ago", "@o" and those without
\* the space or with two markers
SpanForms(o) ==
    {<<c>> \o w \o o : c \in {"+", "-", "@"}, w \in Pads}
    \cup {o \o w \o m : w \in Pads, m \in {<<" ", "l", "e", "f", "t">>, <<" ", "a", "g", "o">>, <<"l", "e", "f", "t">>, <<"a", "g", "o">>}}
    \cup {<<"+">> \o o \o AGO, <<"@">> \o o \o LEFT, <<"-">> \o o \o LEFT,
          <<" ", "+">> \o o, <<" ", "@">> \o o, o \o LEFT \o <<" ">>}

\* a time and a time span: "t +o", "t -o" with the pads around the sign
TimeForms(t, o) ==
    {t \o v \o <<c>> \o w \o o :
        v \in {<<>>, <<" ">>, <<" ", " ">>}, w \in Pads, c \in {"+", "-"}}

\* a time and two time spans
TwoSpanForms(t, o) ==
    {t \o <<" ", c>> \o o \o <<" ", d>> \o o : c \in {"+", "-"}, d \in {"+", "-"}}

\* the examples of whitespace inside a time span: of the tests and of the
\* crate's documentation ("10d 2 5m"), the latter as the span of a timestamp
TODAY_PLUS_1_1S == <<"t", "o", "d", "a", "y", " ", "+", " ", "1", " ", "1", "s">>
TODAY_PLUS_4M_1_1S == <<"t", "o", "d", "a", "y", " ", "+", " ", "4", "m", " ", "1", " ", "1", "s">>
PLUS_10D_2_5M == <<"+", "1", "0", "d", " ", "2", " ", "5", "m">>
LEFT_10D_2_5M == <<"1", "0", "d", " ", "2", " ", "5", "m", " ", "l", "e", "f", "t">>
TODAY_MINUS_10D_2_5M == <<"t", "o", "d", "a", "y", " ", "-", " ", "1", "0", "d", " ", "2", " ", "5", "m">>

SpacedSpans ==
    {TODAY_PLUS_1_1S,
     TODAY_PLUS_4M_1_1S,
     PLUS_10D_2_5M,
     LEFT_10D_2_5M,
     TODAY_MINUS_10D_2_5M}

\* time spans near the largest i64: the sum with the time leaves or does not
\* leave the range of a DateTime
BigSpans ==
    {<<"+", "9", "2", "2", "3", "3", "7", "2", "0", "3", "6", "8", "5", "4", "7", "7", "5", "8", "0", "7", "u", "s">>,
     <<"9", "2", "2", "3", "3", "7", "2", "0", "3", "6", "8", "5", "4", "7", "7", "5", "8", "0", "7", "u", "s", " ", "a", "g", "o">>,
     <<"@", "9", "2", "2", "3", "3", "7", "2", "0", "3", "6", "8", "5", "4", "7", "7", "5", "8", "0", "7", "u", "s">>,
     <<"@", "8", "0", "0", "0", "0", "0", "0", "0", "0", "0", "0", "0", "0", "0", "0", "0", "0", "0", "0", "u", "s">>,
     <<"8", "0", "0", "0", "0", "0", "0", "0", "0", "0", "0", "0", "0", "0", "0", "0", "0", "0", "0", "u", "s", " ", "a", "g", "o">>,
     <<"+", "9", "2", "2", "3", "3", "7", "2", "0", "3", "6", "8", "5", "4", "7", "7", "5", "8", "0", "7", "u", "s", " ", "1", "u", "s">>,
     <<"t", "o", "d", "a", "y", " ", "+", " ", "9", "2", "2", "3", "3", "7", "2", "0", "3", "6", "8", "5", "4", "7", "7", "5", "8", "0", "7", "u", "s">>,
     <<"e", "p", "o", "c", "h", " ", "-", " ", "9", "2", "2", "3", "3", "7", "2", "0", "3", "6", "8", "5", "4", "7", "7", "5", "8", "0", "7", "u", "s">>,
     <<"e", "p", "o", "c", "h", " ", "+", "8", "0", "0", "0", "0", "0", "0", "0", "0", "0", "0", "0", "0", "0", "0", "0", "0", "0", "0", "u", "s">>}

Blank == {<<>>, <<" ">>, <<"\t">>, <<" ", " ">>}

\* the timestamps given with the zone Utc, and those given with every zone
UtcTimestamps ==
    Blank
    \cup SpacedSpans
    \cup BigSpans
    \cup UNION {SpanForms(o) : o \in ShortOffsets}
    \cup UNION {TimeForms(t, o) : t \in BaseTimes, o \in ShortOffsets}
    \cup UNION {TwoSpanForms(t, o) :
                    t \in {TODAY, <<"1", "8", "-", "0", "8", "-", "2", "0">>, <<"b", "a", "d">>},
                    o \in {<<"1", "s">>, <<"5", "b", "a", "d">>}}

ZoneTimestamps ==
    Times
    \cup UNION {TimeForms(t, o) : t \in {TODAY, YESTERDAY, TOMORROW}, o \in {<<"1", "d">>}}

\* the civil dates and date-times that a LocalDateTime is made from: on
\* 2018-03-11 Havana skips 00:00 .. 01:00, on 2018-11-04 it repeats it
CivilDates ==
    {DaysFromCivil(2018, 3, 11), DaysFromCivil(2018, 11, 4), DaysFromCivil(2018, 6, 1)}

CivilTimes ==
    {NaiveDateTime(DaysFromCivil(2018, 3, 11), 30 * 60),
     NaiveDateTime(DaysFromCivil(2018, 11, 4), 30 * 60),
     NaiveDateTime(DaysFromCivil(2018, 3, 10), 12 * 3600)}

\* the durations added and subtracted, the largest and smallest Duration of
\* a whole number of microseconds among them
Durations ==
    {Z0, ZOf(1), USEC_PER_HOUR, ZNeg(USEC_PER_DAY), I64_MAX, ZNeg(I64_MAX)}

CallArgs ==
    {[ts |-> t, tz |-> Utc] : t \in UtcTimestamps}
    \cup {[ts |-> t, tz |-> z] : t \in ZoneTimestamps, z \in Zones}

\* ------------------------------------------------------------------------
\* The state machine: calls of parse_timestamp_tz and of parse_offset, the
\* loop of parse_offset one pass at a time, and the clock
\* ------------------------------------------------------------------------

VARIABLES
    clock,      \* the instant Utc::now() returns
    pc,         \* "idle", "offset" (inside the loop of parse_offset), "done"
    caller,     \* the function that was called: "parse_timestamp_tz" or "parse_offset"
    timestamp,  \* the argument `timestamp`
    time_zone,  \* the argument `time_zone`
    base,       \* the time the offset is relative to
    modifier,   \* "+" or "-": how the offset is applied to the time
    remaining,  \* parse_offset's ts_nw
    total,      \* parse_offset's total_usecs
    result,     \* what the call returned
    reads,      \* how often the call has read the clock
    iters,      \* how often the loop of parse_offset went past its first test
    cuts,       \* the slices the dispatcher took
    branch,     \* the branch the dispatcher took
    now_kept,   \* the caller's `now`: its reading of the clock, or the last result of "now"
    call,       \* the last call of a function of LocalDateTime, with its arguments
    output,     \* what that call returned
    ops         \* how many durations were added to or subtracted from the value

vars == <<clock, pc, caller, timestamp, time_zone, base, modifier, remaining,
          total, result, reads, iters, cuts, branch, now_kept, call, output,
          ops>>

\* the state of the parser, and the state of a LocalDateTime in use
parseVars == <<clock, pc, caller, timestamp, time_zone, base, modifier,
               remaining, total, result, reads, iters, cuts, branch, now_kept>>

localVars == <<call, output, ops>>

NoCall == [method |-> "none"]

Init ==
    /\ clock = Clock0
    /\ pc = "idle"
    /\ caller = "none"
    /\ timestamp = <<>>
    /\ time_zone = Utc
    /\ base = Z0
    /\ modifier = "+"
    /\ remaining = <<>>
    /\ total = Z0
    /\ result = NoResult
    /\ reads = 0
    /\ iters = 0
    /\ cuts = {}
    /\ branch = "none"
    /\ now_kept = Clock0
    /\ call = NoCall
    /\ output = NoResult
    /\ ops = 0

\* a call parse_timestamp_tz(a.ts, a.tz), up to its call of parse_offset
ParseTimestampTz(a) ==
    /\ pc = "idle"
    /\ \E d \in {Dispatch(a.ts, a.tz, clock)} :
           /\ pc' = IF d.returns THEN "done" ELSE "offset"
           /\ result' = d.ret
           /\ base' = d.base
           /\ modifier' = d.sign
           /\ remaining' = d.offset
           /\ reads' = d.reads
           /\ cuts' = d.cuts
           /\ branch' = d.branch
    /\ caller' = "parse_timestamp_tz"
    /\ timestamp' = a.ts
    /\ time_zone' = a.tz
    /\ total' = Z0
    /\ iters' = 0
    /\ UNCHANGED <<clock, now_kept>>
    /\ UNCHANGED localVars

\* a call parse_offset(o)
ParseOffset(o) ==
    /\ pc = "idle"
    /\ pc' = "offset"
    /\ caller' = "parse_offset"
    /\ timestamp' = o
    /\ remaining' = o
    /\ total' = Z0
    /\ result' = NoResult
    /\ iters' = 0
    /\ reads' = 0
    /\ cuts' = {}
    /\ UNCHANGED <<clock, time_zone, base, modifier, branch, now_kept>>
    /\ UNCHANGED localVars

\* one pass through the loop of parse_offset; when it returns, its caller
\* applies the offset to the time and returns
OffsetLoopStep ==
    /\ pc = "offset"
    /\ \E b \in {OffsetLoopBody(remaining, total)} :
           /\ remaining' = b.ts_nw
           /\ total' = b.total_usecs
           /\ iters' = IF remaining = <<>> THEN iters ELSE iters + 1
           /\ pc' = IF b.returns THEN "done" ELSE "offset"
           /\ result' = IF ~b.returns THEN result
                        ELSE IF caller = "parse_offset" THEN b.ret
                        ELSE Combine(base, modifier, b.ret)
    /\ UNCHANGED <<clock, caller, timestamp, time_zone, base, modifier, reads,
                   cuts, branch, now_kept>>
    /\ UNCHANGED localVars

\* the caller takes the result and keeps that of "now", as in
\* `let now = parse_timestamp_tz("now", Utc).unwrap()`; nothing else of a
\* call outlives it
Return ==
    /\ pc = "done"
    /\ pc' = "idle"
    /\ caller' = "none"
    /\ timestamp' = <<>>
    /\ time_zone' = Utc
    /\ base' = Z0
    /\ modifier' = "+"
    /\ remaining' = <<>>
    /\ total' = Z0
    /\ result' = NoResult
    /\ reads' = 0
    /\ iters' = 0
    /\ cuts' = {}
    /\ branch' = "none"
    /\ now_kept' = IF caller = "parse_timestamp_tz" /\ timestamp = NOW /\ IsOk(result)
                   THEN result.v
                   ELSE now_kept
    /\ UNCHANGED clock
    /\ UNCHANGED localVars

\* time passes.  A call reads the clock at most once, so the time that
\* passes during a call passes before or after its reading: between calls.
Tick ==
    /\ pc = "idle"
    /\ ZLt(clock, ClockEnd)
    /\ clock' = ZAdd(clock, TickStep)
    /\ UNCHANGED <<pc, caller, timestamp, time_zone, base, modifier,
                   remaining, total, result, reads, iters, cuts, branch,
                   now_kept>>
    /\ UNCHANGED localVars

\* calls of parse_timestamp_tz while time passes
Next ==
    \/ \E a \in CallArgs : ParseTimestampTz(a)
    \/ OffsetLoopStep
    \/ Return
    \/ Tick

Spec == Init /\ [][Next]_vars

\* calls of parse_offset on its own
NextOffset ==
    \/ \E o \in OffsetArgs : ParseOffset(o)
    \/ OffsetLoopStep
    \/ Return

SpecOffset == Init /\ [][NextOffset]_vars

\* a call of parse_offset runs on, nothing suspends the loop between two of
\* its iterations: weak fairness of OffsetLoopStep, which is enabled, and
\* changes the state, exactly when pc = "offset"
LoopFairness == []<>(pc # "offset") \/ []<><<OffsetLoopStep>>_vars

FairSpecOffset == SpecOffset /\ LoopFairness

\* ------------------------------------------------------------------------
\* The state machine of a LocalDateTime: it is made from a civil date or
\* date-time, durations are added to it and subtracted from it, and one of
\* its instants is taken
\* ------------------------------------------------------------------------

\* the last call returned a LocalDateTime
Holds ==
    /\ call.method \in {"from_date", "from_datetime", "add", "sub"}
    /\ IsOk(output)

CallFromDate(date, tz) ==
    /\ call.method = "none"
    /\ call' = [method |-> "from_date", date |-> date, tz |-> tz]
    /\ output' = from_date(date, tz)
    /\ ops' = 0
    /\ UNCHANGED parseVars

CallFromDatetime(datetime, tz) ==
    /\ call.method = "none"
    /\ call' = [method |-> "from_datetime", datetime |-> datetime, tz |-> tz]
    /\ output' = from_datetime(datetime, tz)
    /\ ops' = 0
    /\ UNCHANGED parseVars

CallAdd(rhs) ==
    /\ Holds
    /\ ops < MaxOps
    /\ call' = [method |-> "add", self |-> output.v, rhs |-> rhs]
    /\ output' = add(output.v, rhs)
    /\ ops' = ops + 1
    /\ UNCHANGED parseVars

CallSub(rhs) ==
    /\ Holds
    /\ ops < MaxOps
    /\ call' = [method |-> "sub", self |-> output.v, rhs |-> rhs]
    /\ output' = sub(output.v, rhs)
    /\ ops' = ops + 1
    /\ UNCHANGED parseVars

CallSingle ==
    /\ Holds
    /\ call' = [method |-> "single", self |-> output.v]
    /\ output' = LocalDateTime_single(output.v)
    /\ UNCHANGED ops
    /\ UNCHANGED parseVars

CallEarliest ==
    /\ Holds
    /\ call' = [method |-> "earliest", self |-> output.v]
    /\ output' = earliest(output.v)
    /\ UNCHANGED ops
    /\ UNCHANGED parseVars

CallLatest ==
    /\ Holds
    /\ call' = [method |-> "latest", self |-> output.v]
    /\ output' = latest(output.v)
    /\ UNCHANGED ops
    /\ UNCHANGED parseVars

\* the value is dropped
Drop ==
    /\ call.method # "none"
    /\ call' = NoCall
    /\ output' = NoResult
    /\ ops' = 0
    /\ UNCHANGED parseVars

NextLocal ==
    \/ \E date \in CivilDates : \E tz \in Zones : CallFromDate(date, tz)
    \/ \E datetime \in CivilTimes : \E tz \in Zones : CallFromDatetime(datetime, tz)
    \/ \E rhs \in Durations : CallAdd(rhs)
    \/ \E rhs \in Durations : CallSub(rhs)
    \/ CallSingle
    \/ CallEarliest
    \/ CallLatest
    \/ Drop

SpecLocal == Init /\ [][NextLocal]_vars

\* ------------------------------------------------------------------------
\* What the specification says of an offset: its components, the table of
\* the units, and the sum of the components as a natural number
\* ------------------------------------------------------------------------

Done(function) == pc = "done" /\ caller = function

\* the length of the longest prefix of s made of characters of `chars`
RunLength(s, chars) ==
    CHOOSE n \in 0..Len(s) :
        /\ \A i \in 1..n : s[i] \in chars
        /\ n = Len(s) \/ s[n + 1] \notin chars

RECURSIVE ComponentsOf(_)
\* the pairs <digits><letters> of an offset, each run maximal; a character
\* that is neither ends the list with a component that has neither
ComponentsOf(o) ==
    IF o = <<>> THEN <<>>
    ELSE LET nd == RunLength(o, is_digit)
             nl == RunLength(SubSeq(o, nd + 1, Len(o)), is_alphabetic)
         IN  IF nd + nl = 0 THEN << [digits |-> <<>>, letters |-> <<>>] >>
             ELSE << [digits |-> SubSeq(o, 1, nd),
                      letters |-> SubSeq(o, nd + 1, nd + nl)] >>
                  \o ComponentsOf(SubSeq(o, nd + nl + 1, Len(o)))

\* usec=1; msec=1,000 x usec; sec=1,000 x msec; minute=60 x sec;
\* hour=60 x minute; day=24 x hour; week=7 x day; month=2,629,800 x sec;
\* year=31,557,600 x sec
UnitUsec == NatOf(1)
UnitMsec == NatMul(NatOf(1000), UnitUsec)
UnitSec == NatMul(NatOf(1000), UnitMsec)
UnitMinute == NatMul(NatOf(60), UnitSec)
UnitHour == NatMul(NatOf(60), UnitMinute)
UnitDay == NatMul(NatOf(24), UnitHour)
UnitWeek == NatMul(NatOf(7), UnitDay)
UnitMonth == NatMul(NatOf(2629800), UnitSec)
UnitYear == NatMul(NatOf(31557600), UnitSec)

\* the recognised spellings of each unit
UnitTable ==
    << [spellings |-> {<<"u", "s", "e", "c">>, <<"u", "s">>, <<"mu", "s">>}, usecs |-> UnitUsec],
       [spellings |-> {<<"m", "s", "e", "c">>, <<"m", "s">>}, usecs |-> UnitMsec],
       [spellings |-> {<<"s", "e", "c", "o", "n", "d", "s">>, <<"s", "e", "c", "o", "n", "d">>, <<"s", "e", "c">>, <<"s">>}, usecs |-> UnitSec],
       [spellings |-> {<<"m", "i", "n", "u", "t", "e", "s">>, <<"m", "i", "n", "u", "t", "e">>, <<"m", "i", "n">>, <<"m">>}, usecs |-> UnitMinute],
       [spellings |-> {<<"h", "o", "u", "r", "s">>, <<"h", "o", "u", "r">>, <<"h", "r">>, <<"h">>}, usecs |-> UnitHour],
       [spellings |-> {<<"d", "a", "y", "s">>, <<"d", "a", "y">>, <<"d">>}, usecs |-> UnitDay],
       [spellings |-> {<<"w", "e", "e", "k", "s">>, <<"w", "e", "e", "k">>, <<"w">>}, usecs |-> UnitWeek],
       [spellings |-> {<<"m", "o", "n", "t", "h", "s">>, <<"m", "o", "n", "t", "h">>, <<"M">>}, usecs |-> UnitMonth],
       [spellings |-> {<<"y", "e", "a", "r", "s">>, <<"y", "e", "a", "r">>, <<"y">>}, usecs |-> UnitYear] >>

Recognised == UNION {UnitTable[i].spellings : i \in 1..Len(UnitTable)}

MultiplierOf(letters) ==
    UnitTable[CHOOSE i \in 1..Len(UnitTable) :
                 letters \in UnitTable[i].spellings].usecs

WellFormedComponent(c) == c.digits # <<>> /\ c.letters \in Recognised

WellFormed(components) ==
    \A i \in 1..Len(components) : WellFormedComponent(components[i])

RECURSIVE SumOf(_)
\* the sum of number x multiplier over well-formed components
SumOf(components) ==
    IF components = <<>> THEN <<>>
    ELSE NatAdd(NatMul(DecimalValue(Head(components).digits),
                       MultiplierOf(Head(components).letters)),
                SumOf(Tail(components)))

\* n seconds as a duration
Seconds(n) == ZNat(NatMul(NatOf(n), UnitSec))

\* ------------------------------------------------------------------------
\* Claims
\* ------------------------------------------------------------------------

\* C1: parse_offset, given an offset made of <number><unit> components,
\* returns exactly the sum of number x multiplier over the components when
\* that sum is in the signed 64-bit range and fails with a Number error when
\* a product or the running total leaves the range; a total it returns is
\* the sum of a well-formed offset and lies in 0 .. i64::MAX, never a
\* wrapped, negative or truncated value.
C1_ExactSumOrNumberError ==
    Done("parse_offset") =>
        LET components == ComponentsOf(timestamp)
        IN  /\ IsOk(result) =>
                /\ WellFormed(components)
                /\ result.v = ZNat(SumOf(components))
                /\ ZLe(Z0, result.v) /\ ZLe(result.v, I64_MAX)
            /\ WellFormed(components) =>
                result = IF NatLe(SumOf(components), I64_MAX.mag)
                         THEN Ok(ZNat(SumOf(components)))
                         ELSE Err("Number")

\* two components that each fit and whose sum does not: a Number error
C1_Witness ==
    /\ Done("parse_offset")
    /\ timestamp = <<"1", "0", "0", "0", "0", "0", "0", "0", "0", "d">> \o <<"1", "0", "0", "0", "0", "0", "0", "0", "0", "d">>
    /\ result = Err("Number")

\* C3: while parse_offset runs, its total is the sum of the components it
\* has consumed, and the duration it returns is the sum of all components:
\* a component that repeats a unit adds to the earlier ones ("1s4m2s" is
\* 3 seconds + 4 minutes).
C3_ComponentsAreSummed ==
    (caller = "parse_offset" /\ (pc = "offset" \/ (pc = "done" /\ IsOk(result)))) =>
        /\ total = ZNat(SumOf(ComponentsOf(
                       SubSeq(timestamp, 1, Len(timestamp) - Len(remaining)))))
        /\ pc = "done" => result.v = total /\ remaining = <<>>

C3_Witness ==
    /\ Done("parse_offset")
    /\ timestamp = <<"1", "s", "4", "m", "2", "s">>
    /\ iters = 3
    /\ result = Ok(Seconds(3 + 4 * 60))

\* C4: the table has 29 spellings, each resolves to the multiplier of its
\* unit, and "<N><spelling>" is N x that multiplier, the same duration for
\* every spelling of the unit.
C4_SpellingsResolveToTheirUnit ==
    /\ Cardinality(Recognised) = 29
    /\ \A u \in Recognised :
          USEC_MULTIPLIER_get(u) = Some(ZNat(MultiplierOf(u)))
    /\ Done("parse_offset") =>
          \A n \in Numbers : \A u \in Recognised :
              timestamp = n \o u =>
                  result = Ok(ZNat(NatMul(DecimalValue(n), MultiplierOf(u))))

C4_Witness ==
    /\ Done("parse_offset")
    /\ timestamp = <<"5", "m", "o", "n", "t", "h", "s">>
    /\ result = Ok(Seconds(5 * 2629800))

\* the first k - 1 components are well-formed and their sum is in range, and
\* component k is a number in range followed by letters that are no spelling
FirstUnknownUnit(components, k) ==
    /\ WellFormed(SubSeq(components, 1, k - 1))
    /\ NatLe(SumOf(SubSeq(components, 1, k - 1)), I64_MAX.mag)
    /\ components[k].digits # <<>>
    /\ NatLe(DecimalValue(components[k].digits), I64_MAX.mag)
    /\ components[k].letters \notin Recognised

\* C5: a number followed by a letter run that is not a recognised spelling
\* (wrong case, an unknown word, or no letter at all) makes parse_offset fail
\* with a TimeUnit error, so "+5", "5 ago" and "today +5" fail with it; "m"
\* is the minute and "M" the month.
C5_UnknownUnitIsTimeUnitError ==
    /\ Done("parse_offset") =>
          /\ \A k \in 1..Len(ComponentsOf(timestamp)) :
                FirstUnknownUnit(ComponentsOf(timestamp), k) =>
                    result = Err("TimeUnit")
          /\ timestamp = <<"1", "m">> => result = Ok(Seconds(60))
          /\ timestamp = <<"1", "M">> => result = Ok(Seconds(2629800))
    /\ \A ts \in {<<"+", "5">>, <<"5", " ", "a", "g", "o">>,
                  <<"t", "o", "d", "a", "y", " ", "+", "5">>} :
          parse_timestamp_tz(ts, Utc, clock) = Err("TimeUnit")

C5_Witness ==
    /\ Done("parse_offset")
    /\ timestamp = <<"5", "S">>
    /\ result = Err("TimeUnit")

\* ------------------------------------------------------------------------
\* Claims about the dispatcher
\* ------------------------------------------------------------------------

\* ts with a space put after its first i characters
InsertSpace(ts, i) == SubSeq(ts, 1, i) \o <<" ">> \o SubSeq(ts, i + 1, Len(ts))

\* the position of the modifier '+', '-' or '@' of ts, 0 when it has none
ModifierAt(ts) ==
    IF ts # <<>> /\ Head(ts) \in {"+", "-", "@"} THEN 1
    ELSE IF find(ts, <<" ", "+">>) # NoPos THEN find(ts, <<" ", "+">>) + 2
    ELSE IF find(ts, <<" ", "-">>) # NoPos THEN find(ts, <<" ", "-">>) + 2
    ELSE 0

\* the places of ts where the claim speaks of whitespace: before and after
\* the modifier, between a number and its unit, between two components
WhitespacePlaces(ts) ==
    {i \in 0..Len(ts) :
        /\ ModifierAt(ts) # 0
        /\ \/ i = ModifierAt(ts) - 1
           \/ i = ModifierAt(ts)
           \/ /\ ModifierAt(ts) < i /\ i < Len(ts)
              /\ \/ ts[i] \in is_digit /\ ts[i + 1] \in is_alphabetic
                 \/ ts[i] \in is_alphabetic /\ ts[i + 1] \in is_digit}

\* C2: for an input that parse_timestamp_tz accepts, one more space before
\* or after the modifier, between a number and its unit or between two
\* components of the offset gives the same result at the same current time.
C2_WhitespaceIsInsignificant ==
    (Done("parse_timestamp_tz") /\ IsOk(result)) =>
        \A i \in WhitespacePlaces(timestamp) :
            parse_timestamp_tz(InsertSpace(timestamp, i), time_zone, clock)
                = result

\* the inputs in which the modifier directly follows the preceding text
Unspaced ==
    {t \o <<c>> \o w \o o :
        t \in BaseTimes, c \in {"+", "-"}, w \in Pads, o \in ShortOffsets}
    \cup {o \o m : o \in ShortOffsets \ {<<>>},
                   m \in {<<"l", "e", "f", "t">>, <<"a", "g", "o">>}}

\* the dispatcher did not split the input: it took no slice of it and did
\* not call parse_offset
NotSplit ==
    branch = "time" /\ cuts = {} /\ iters = 0 /\ remaining = <<>>

\* the text before the first '.' of ts is a date-time or a time of day
\* with seconds
TimeBeforeDot(ts, tz, now) ==
    /\ find(ts, <<".">>) # NoPos
    /\ IsOk(FirstPattern(Slice(ts, 0, find(ts, <<".">>)), tz, now, DotPatterns))

\* C6 as the specification states it: an input in which '+', '-', "left"
\* or "ago" directly follows the preceding text is not split into base and
\* offset and fails with a Format error.
C6_UnspacedIsFormatError ==
    (Done("parse_timestamp_tz") /\ timestamp \in Unspaced) =>
        NotSplit /\ result = Err("Format")

\* C6: an input in which '+', '-', "left" or "ago" directly follows the
\* preceding text is not split into base and offset and fails: with a
\* Number error when the text before its first '.' is a time with seconds
\* (what follows the '.' is then read as the microseconds), with a Format
\* error otherwise.
C6_UnspacedIsNotSplit ==
    (Done("parse_timestamp_tz") /\ timestamp \in Unspaced) =>
        /\ NotSplit
        /\ result = IF TimeBeforeDot(timestamp, time_zone, clock)
                    THEN Err("Number")
                    ELSE Err("Format")

C6_Witness ==
    /\ Done("parse_timestamp_tz")
    /\ timestamp = <<"1", "0", ":", "1", "1", ":", "1", "2", ".", "5", "+", "1", "s">>
    /\ NotSplit
    /\ result = Err("Number")

\* the input is not blank and is none of the special cases
ReachesGeneralCase(ts) ==
    /\ \E i \in 1..Len(ts) : ts[i] \notin WhitespaceChars
    /\ Head(ts) \notin {"+", "-", "@"}
    /\ ~ends_with(ts, <<" ", "l", "e", "f", "t">>)
    /\ ~ends_with(ts, <<" ", "a", "g", "o">>)

\* C7: an input of the general case that contains both " +" and " -", in
\* either order, fails with a Format error; neither parse_time nor
\* parse_offset is called for it.
C7_BothModifiersIsFormatError ==
    (/\ Done("parse_timestamp_tz")
     /\ ReachesGeneralCase(timestamp)
     /\ find(timestamp, <<" ", "+">>) # NoPos
     /\ find(timestamp, <<" ", "-">>) # NoPos) =>
        /\ result = Err("Format")
        /\ branch = "both"
        /\ reads = 0 /\ iters = 0 /\ cuts = {}

C7_Witness ==
    /\ Done("parse_timestamp_tz")
    /\ timestamp = TODAY \o <<" ", "-", "1", "s", " ", "+", "1", "s">>
    /\ result = Err("Format")
    /\ branch = "both"

\* C8: an input that is empty or all whitespace fails with a Format error
\* in the first test of the dispatcher, before the special cases and the
\* general case, and the clock is not read.
C8_BlankIsFormatError ==
    (/\ caller = "parse_timestamp_tz"
     /\ \A i \in 1..Len(timestamp) : timestamp[i] \in WhitespaceChars) =>
        /\ pc = "done"
        /\ result = Err("Format")
        /\ branch = "empty"
        /\ reads = 0 /\ iters = 0 /\ cuts = {}

C8_Witness ==
    /\ Done("parse_timestamp_tz")
    /\ timestamp = <<" ", " ">>
    /\ result = Err("Format")
    /\ reads = 0

\* C9: for a well-formed offset o, the empty one included, "@" + o gives
\* what "epoch +" + o gives, and "@" gives what "epoch" gives: the epoch.
C9_AtIsEpochPlusOffset ==
    (/\ Done("parse_timestamp_tz")
     /\ timestamp # <<>> /\ Head(timestamp) = "@"
     /\ WellFormed(ComponentsOf(strip_whitespace(Tail(timestamp))))) =>
        /\ result = parse_timestamp_tz(EPOCH \o <<" ", "+">> \o Tail(timestamp),
                                       time_zone, clock)
        /\ timestamp = <<"@">> =>
              /\ result = parse_timestamp_tz(EPOCH, time_zone, clock)
              /\ result = Ok(Z0)

C9_Witness ==
    /\ Done("parse_timestamp_tz")
    /\ timestamp = <<"@", "1", "s", "4", "m", "2", "s">>
    /\ result = Ok(Seconds(3 + 4 * 60))

\* the civil time that the input asks to resolve in tz: midnight of today
\* for "today", midnight of a date, a time of day on today's date, or a
\* full date-time
CivilTime(ts, tz, now) ==
    LET date == NaiveDate_parse_from_str(ts, FMT_Y_m_d)
        time == NaiveTime_parse_from_str(ts, FMT_H_M)
        full == Scan(ts, FMT_Y_m_d_H_M_S, Parsed0)
    IN  IF ts = TODAY THEN Some(NaiveDateTime(LocalDate(tz, now), 0))
        ELSE IF date.ok THEN Some(NaiveDateTime(date.days, 0))
        ELSE IF time.ok THEN Some(NaiveDateTime(LocalDate(tz, now), time.secs))
        ELSE IF to_naive_date(full).ok /\ to_naive_time(full).ok
             THEN Some(NaiveDateTime(to_naive_date(full).days,
                                     to_naive_time(full).secs))
        ELSE None

\* the civil time to resolve is one that the time zone skips
InGap(ts, tz, now) ==
    /\ CivilTime(ts, tz, now).some
    /\ from_local_datetime(tz, CivilTime(ts, tz, now).v).kind = "None"

\* C10: when the civil time to resolve falls in an interval that the time
\* zone skips, the parse returns the Never error; it does not abort and it
\* returns no instant.
C10_GapGivesNever ==
    (Done("parse_timestamp_tz") /\ InGap(timestamp, time_zone, clock)) =>
        result = Err("Never")

\* ------------------------------------------------------------------------
\* Claims about a time with a '.'
\* ------------------------------------------------------------------------

\* the texts before and after the first '.' of ts
BeforeDot(ts) == Slice(ts, 0, find(ts, <<".">>))

AfterDot(ts) == SliceFrom(ts, find(ts, <<".">>) + 1)

\* the call was given a time without offset that has a '.'
DoneDotted ==
    /\ Done("parse_timestamp_tz")
    /\ branch = "time"
    /\ find(timestamp, <<".">>) # NoPos

DigitString(s) == s # <<>> /\ \A i \in 1..Len(s) : s[i] \in is_digit

\* s writes a non-negative integer of the signed 64-bit range
NonNegativeInteger(s) == DigitString(s) /\ NatLe(DecimalValue(s), I64_MAX.mag)

\* C13: the text after the '.' of a fractional time is accepted only when it
\* is a non-negative integer: an empty text, a text with a sign, with
\* whitespace or another character that is no digit, or a value beyond the
\* signed 64-bit range gives a Number error.
C13_FractionIsNonNegativeInteger ==
    (/\ DoneDotted
     /\ TimeBeforeDot(timestamp, time_zone, clock)
     /\ ~NonNegativeInteger(AfterDot(timestamp))) =>
        result = Err("Number")

\* the text T is a date and time of day with seconds, or a time of day with
\* seconds
HasSeconds(T) ==
    \/ \E fmt \in {FMT_y_m_d_H_M_S, FMT_Y_m_d_H_M_S} :
          /\ to_naive_date(Scan(T, fmt, Parsed0)).ok
          /\ to_naive_time(Scan(T, fmt, Parsed0)).ok
    \/ NaiveTime_parse_from_str(T, FMT_H_M_S).ok

\* the outcome r of parsing a time, n microseconds later
PlusMicroseconds(r, n) == IF IsOk(r) THEN Ok(ZAdd(r.v, ZNat(n))) ELSE r

\* C14 as the specification states it: for a text T with seconds and every
\* digit string N, T.N is T plus int(N) microseconds; a text before the
\* first '.' that is none of the three patterns gives a Format error.
C14_FractionIsMicroseconds ==
    DoneDotted =>
        LET T == BeforeDot(timestamp)
            N == AfterDot(timestamp)
        IN  /\ (HasSeconds(T) /\ DigitString(N)) =>
                  result = PlusMicroseconds(parse_timestamp_tz(T, time_zone, clock),
                                            DecimalValue(N))
            /\ ~HasSeconds(T) => result = Err("Format")

\* C14: for a text T with seconds and a digit string N whose value is in
\* the signed 64-bit range, T.N is T plus int(N) microseconds, as long as
\* that instant is one a DateTime holds (the call aborts when it is not);
\* a digit string beyond the 64-bit range gives a Number error; ".5" and
\* ".05" are the same instant; a text before the first '.' that is none of
\* the three patterns gives a Format error, whatever follows the '.'.
C14_FractionIsMicrosecondsInRange ==
    DoneDotted =>
        LET T == BeforeDot(timestamp)
            N == AfterDot(timestamp)
            time == parse_timestamp_tz(T, time_zone, clock)
            sum == PlusMicroseconds(time, DecimalValue(N))
        IN  /\ (HasSeconds(T) /\ DigitString(N)) =>
                  result = IF ~IsOk(time) THEN time
                           ELSE IF ~NonNegativeInteger(N) THEN Err("Number")
                           ELSE IF ZLe(sum.v, MAX_DATETIME) THEN sum
                           ELSE Panic
            /\ ~HasSeconds(T) => result = Err("Format")
            /\ N = <<"5">> =>
                  result = parse_timestamp_tz(T \o <<".", "0", "5">>, time_zone, clock)

C14_Witness ==
    /\ DoneDotted
    /\ timestamp = <<"1", "0", ":", "1", "1", ":", "1", "2", ".", "0", "5">>
    /\ IsOk(result)
    /\ result = PlusMicroseconds(
                    parse_timestamp_tz(<<"1", "0", ":", "1", "1", ":", "1", "2">>,
                                       time_zone, clock), NatOf(5))

\* ------------------------------------------------------------------------
\* Claims about the order of the errors
\* ------------------------------------------------------------------------

\* the first k - 1 components are well-formed and their sum is in range, and
\* component k is a number, of any size, followed by letters that are no
\* spelling
NumberWithUnknownUnit(components, k) ==
    /\ WellFormed(SubSeq(components, 1, k - 1))
    /\ NatLe(SumOf(SubSeq(components, 1, k - 1)), I64_MAX.mag)
    /\ components[k].digits # <<>>
    /\ components[k].letters \notin Recognised

\* C17: a component whose letter run is not in the unit table fails with a
\* TimeUnit error, also when its digit run is too large for a signed 64-bit
\* integer: the unknown unit is reported in preference to a problem of the
\* number of the same component.
C17_UnknownUnitHasPriority ==
    Done("parse_offset") =>
        \A k \in 1..Len(ComponentsOf(timestamp)) :
            NumberWithUnknownUnit(ComponentsOf(timestamp), k) =>
                result = Err("TimeUnit")

\* the call took the general case with a modifier
DoneWithModifier ==
    Done("parse_timestamp_tz") /\ branch \in {"time+", "time-"}

\* the text before the modifier of ts
BaseText(ts) ==
    Slice(ts, 0, find(ts, IF branch = "time+" THEN <<" ", "+">> ELSE <<" ", "-">>))

\* the text after the modifier of ts, without whitespace
OffsetText(ts) ==
    LET nw == strip_whitespace(ts)
    IN  IF branch = "time+" THEN SliceFrom(nw, find(nw, <<"+">>) + 1)
        ELSE SliceFrom(nw, rfind(nw, <<"-">>) + 1)

\* C18 as the specification states it: in the general case with a
\* modifier, a base text that is not a valid time gives the Format error of
\* the time parser whatever the offset text is; a valid base with an offset
\* that is not valid gives the error of the offset parser; no instant is
\* returned when either part fails.
C18_BaseErrorIsFormat ==
    DoneWithModifier =>
        LET time == parse_time(BaseText(timestamp), time_zone, clock)
            offset == parse_offset(OffsetText(timestamp))
        IN  /\ time.kind \in {"Format", "Number"} => result = Err("Format")
            /\ (IsOk(time) /\ ~IsOk(offset)) => result = offset
            /\ IsOk(result) => IsOk(time) /\ IsOk(offset)

\* C18: in the general case with a modifier, a base text that is not a
\* valid time gives the error of the time parser whatever the offset text
\* is (the Number error when the text after the '.' of the base is no
\* number, else the Format error); a valid base with an offset that is not
\* valid gives the error of the offset parser; no instant is returned when
\* either part fails.
C18_BaseErrorThenOffsetError ==
    DoneWithModifier =>
        LET time == parse_time(BaseText(timestamp), time_zone, clock)
            offset == parse_offset(OffsetText(timestamp))
        IN  /\ time.kind \in {"Format", "Number"} =>
                  /\ result = Err(time.kind)
                  /\ iters = 0
                  /\ time.kind = "Number" <=>
                        TimeBeforeDot(BaseText(timestamp), time_zone, clock)
            /\ (IsOk(time) /\ ~IsOk(offset)) => result = offset
            /\ IsOk(result) => IsOk(time) /\ IsOk(offset)

\* neither the base nor the offset is valid: the error is that of the base
C18_Witness ==
    /\ DoneWithModifier
    /\ timestamp = <<"b", "a", "d", " ", "+", "5">>
    /\ result = Err("Format")
    /\ parse_offset(OffsetText(timestamp)) = Err("TimeUnit")

\* ------------------------------------------------------------------------
\* Claims about "yesterday" and "tomorrow"
\* ------------------------------------------------------------------------

TodayMinus1d == TODAY \o <<" ", "-", " ", "1", "d">>

\* the outcome r of parsing a time, n microseconds earlier
MinusMicroseconds(r, n) == IF IsOk(r) THEN Ok(ZSub(r.v, ZNat(n))) ELSE r

\* C15: in every time zone and at every current instant, "yesterday" gives
\* what "today - 1d" gives, and "tomorrow" gives what "today" gives plus a
\* duration of 24 hours.
C15_YesterdayIsTodayMinusOneDay ==
    Done("parse_timestamp_tz") =>
        LET today == parse_timestamp_tz(TODAY, time_zone, clock)
        IN  /\ timestamp = YESTERDAY =>
                  /\ result = parse_timestamp_tz(TodayMinus1d, time_zone, clock)
                  /\ result = MinusMicroseconds(today, UnitDay)
            /\ timestamp = TOMORROW =>
                  result = PlusMicroseconds(today, UnitDay)

\* "yesterday" on the day after the clocks of New York went forward
C15_Witness ==
    /\ Done("parse_timestamp_tz")
    /\ timestamp = YESTERDAY
    /\ time_zone = NewYork
    /\ clock = ClockEnd
    /\ IsOk(result)
    /\ result = parse_timestamp_tz(TodayMinus1d, time_zone, clock)

\* the civil time of the instant utc in tz
CivilOf(tz, utc) == ZAdd(utc, OffsetUsecs(offset_from_utc(tz, utc)))

\* C16: "yesterday" and "tomorrow" are the civil midnight of the date one
\* day before and one day after today's date in the time zone, also when a
\* change of the clocks makes the day in between longer or shorter than 24
\* hours.
C16_YesterdayIsCivilMidnight ==
    (Done("parse_timestamp_tz") /\ IsOk(result)) =>
        /\ timestamp = YESTERDAY =>
              CivilOf(time_zone, result.v)
                  = NaiveDateTime(LocalDate(time_zone, clock) - 1, 0)
        /\ timestamp = TOMORROW =>
              CivilOf(time_zone, result.v)
                  = NaiveDateTime(LocalDate(time_zone, clock) + 1, 0)

\* ------------------------------------------------------------------------
\* Claims about the order of the special forms
\* ------------------------------------------------------------------------

\* the special forms in the order of their tests, each with the time and
\* the sign it decides and the part of the text without whitespace, of
\* length n, that is its offset
SpecialForms(n) ==
    << [form |-> "+",    prefix |-> <<"+">>, suffix |-> <<>>,
        time |-> "now",   sign |-> "+", from |-> 1, to |-> n],
       [form |-> "left", prefix |-> <<>>, suffix |-> <<" ", "l", "e", "f", "t">>,
        time |-> "now",   sign |-> "+", from |-> 0, to |-> n - 4],
       [form |-> "-",    prefix |-> <<"-">>, suffix |-> <<>>,
        time |-> "now",   sign |-> "-", from |-> 1, to |-> n],
       [form |-> "ago",  prefix |-> <<>>, suffix |-> <<" ", "a", "g", "o">>,
        time |-> "now",   sign |-> "-", from |-> 0, to |-> n - 3],
       [form |-> "@",    prefix |-> <<"@">>, suffix |-> <<>>,
        time |-> "epoch", sign |-> "+", from |-> 1, to |-> n] >>

\* the original text ts has the marker of the form f
HasMarker(ts, f) ==
    /\ Len(ts) >= Len(f.prefix) + Len(f.suffix)
    /\ SubSeq(ts, 1, Len(f.prefix)) = f.prefix
    /\ SubSeq(ts, Len(ts) - Len(f.suffix) + 1, Len(ts)) = f.suffix

\* the offset applied to the time, as far as a DateTime can hold the sum
Applied(time, sign, offset) ==
    LET sum == IF sign = "+" THEN ZAdd(time, offset.v) ELSE ZSub(time, offset.v)
    IN  IF ~IsOk(offset) THEN offset
        ELSE IF ZLe(MIN_DATETIME, sum) /\ ZLe(sum, MAX_DATETIME) THEN Ok(sum)
        ELSE Panic

\* C20: the special forms are tested against the original text in the order
\* leading '+', trailing " left", leading '-', trailing " ago", leading '@';
\* the first whose marker the text has decides the time and the sign alone,
\* the rest of the text without whitespace, a marker of a later form
\* included, is its offset, and the general case is not consulted; a text
\* with no marker goes to the general case.
C20_FirstSpecialFormDecides ==
    (Done("parse_timestamp_tz") /\ branch # "empty") =>
        LET nw == strip_whitespace(timestamp)
            forms == SpecialForms(Len(nw))
            matching == {i \in 1..Len(forms) : HasMarker(timestamp, forms[i])}
        IN  IF matching = {}
            THEN branch \in {"both", "time+", "time-", "time"}
            ELSE LET f == forms[CHOOSE i \in matching : \A j \in matching : i <= j]
                     time == IF f.time = "now" THEN clock ELSE Z0
                 IN  /\ branch = f.form
                     /\ base = time
                     /\ modifier = f.sign
                     /\ cuts = {<<f.from, f.to, Len(nw)>>}
                     /\ reads = (IF f.time = "now" THEN 1 ELSE 0)
                     /\ result = Applied(time, f.sign,
                                         parse_offset(Slice(nw, f.from, f.to)))

\* "+1s ago" is the form '+' with the offset "1sago"
C20_Witness ==
    /\ Done("parse_timestamp_tz")
    /\ timestamp = <<"+", "1", "s", " ", "a", "g", "o">>
    /\ branch = "+"
    /\ cuts = {<<1, 6, 6>>}
    /\ result = Err("TimeUnit")

\* ------------------------------------------------------------------------
\* Claims about the clock
\* ------------------------------------------------------------------------

\* the call is relative to now: "+o", "o left" or "now +o" (sign "+"),
\* "-o", "o ago" or "now -o" (sign "-")
RelativeToNow(sign) ==
    /\ Done("parse_timestamp_tz")
    /\ \/ branch \in (IF sign = "+" THEN {"+", "left"} ELSE {"-", "ago"})
       \/ /\ branch = (IF sign = "+" THEN "time+" ELSE "time-")
          /\ BaseText(timestamp) = NOW

\* the offset text o of such a call, without whitespace
PureOffset ==
    LET nw == strip_whitespace(timestamp)
    IN  CASE branch \in {"+", "-"} -> SliceFrom(nw, 1)
          [] branch = "left" -> Slice(nw, 0, Len(nw) - 4)
          [] branch = "ago" -> Slice(nw, 0, Len(nw) - 3)
          [] OTHER -> OffsetText(timestamp)

\* the duration of the offset text o
DurationOf(o) == ZNat(SumOf(ComponentsOf(o)))

\* C19: the clock never goes backwards; "now" returns an instant that is
\* not earlier than a reading of the clock taken before the call; a call
\* "+o", "o left" or "now +o" made after a call of "now" returns an instant
\* not earlier than the result of "now" plus the duration of o, and a call
\* "-o", "o ago" or "now -o" one not earlier than that result minus the
\* duration of o.
C19_NotEarlierThanNow ==
    /\ ZLe(Clock0, now_kept) /\ ZLe(now_kept, clock)
    /\ (Done("parse_timestamp_tz") /\ IsOk(result)) =>
          /\ timestamp = NOW =>
                /\ result.v = clock
                /\ ZLe(now_kept, result.v)
          /\ RelativeToNow("+") =>
                /\ result.v = ZAdd(clock, DurationOf(PureOffset))
                /\ ZLe(ZAdd(now_kept, DurationOf(PureOffset)), result.v)
          /\ RelativeToNow("-") =>
                /\ result.v = ZSub(clock, DurationOf(PureOffset))
                /\ ZLe(ZSub(now_kept, DurationOf(PureOffset)), result.v)

\* "1s ago" some time after a call of "now" that was not the first reading
C19_Witness ==
    /\ RelativeToNow("-")
    /\ timestamp = <<"1", "s", " ", "a", "g", "o">>
    /\ now_kept = ZAdd(Clock0, TickStep)
    /\ clock = ClockEnd
    /\ result = Ok(ZSub(clock, Seconds(1)))
    /\ ZLt(ZSub(now_kept, Seconds(1)), result.v)

\* ------------------------------------------------------------------------
\* Claims about LocalDateTime
\* ------------------------------------------------------------------------

\* every instant of the LocalDateTime r, moved by d, is one a DateTime holds
InRange(r, d) ==
    \A i \in 1..Len(r.dt) :
        /\ ZLe(MIN_DATETIME, ZAdd(r.dt[i], d))
        /\ ZLe(ZAdd(r.dt[i], d), MAX_DATETIME)

\* r with d added to each of its instants
Moved(r, d) ==
    IF r.variant = "Single" THEN Single(ZAdd(r.dt[1], d))
    ELSE Ambiguous(ZAdd(r.dt[1], d), ZAdd(r.dt[2], d))

\* C11: adding a duration d to a LocalDateTime r, or subtracting it, keeps
\* the variant and applies d to every instant: Single(a) becomes
\* Single(a + d) and Ambiguous(a, b) becomes Ambiguous(a + d, b + d), so
\* b - a is unchanged and (r + d) - d is r.  (The addition is that of
\* DateTime, which aborts when an instant would leave DateTime's range.)
C11_ArithmeticKeepsTheVariant ==
    call.method \in {"add", "sub"} =>
        LET r == call.self
            d == IF call.method = "add" THEN call.rhs ELSE ZNeg(call.rhs)
        IN  IF InRange(r, d)
            THEN /\ IsOk(output)
                 /\ output.v.variant = r.variant
                 /\ output.v = Moved(r, d)
                 /\ r.variant = "Ambiguous" =>
                        ZSub(output.v.dt[2], output.v.dt[1]) = ZSub(r.dt[2], r.dt[1])
                 /\ call.method = "add" => sub(output.v, call.rhs) = Ok(r)
                 /\ call.method = "sub" => add(output.v, call.rhs) = Ok(r)
            ELSE output = Panic

\* an hour is added to a civil time that occurs twice
C11_Witness ==
    /\ call.method = "add"
    /\ call.self.variant = "Ambiguous"
    /\ call.rhs = USEC_PER_HOUR
    /\ IsOk(output)
    /\ output.v = Ambiguous(ZAdd(call.self.dt[1], USEC_PER_HOUR),
                            ZAdd(call.self.dt[2], USEC_PER_HOUR))

\* C12: single(r) is Some(x) exactly when r is Single(x) and None when r is
\* Ambiguous; earliest(r) is the first and latest(r) the second instant of
\* an Ambiguous r; on Single(x) earliest and latest both return x.
C12_SingleEarliestLatest ==
    /\ call.method = "single" =>
          /\ \A x \in {call.self.dt[1]} :
                output = Some(x) <=> call.self = Single(x)
          /\ call.self.variant = "Ambiguous" => output = None
    /\ call.method = "earliest" =>
          /\ call.self.variant = "Ambiguous" => output = call.self.dt[1]
          /\ call.self.variant = "Single" => call.self = Single(output)
    /\ call.method = "latest" =>
          /\ call.self.variant = "Ambiguous" => output = call.self.dt[2]
          /\ call.self.variant = "Single" => call.self = Single(output)

\* latest of a civil time that occurs twice: the second instant, an hour
\* after the first
C12_Witness ==
    /\ call.method = "latest"
    /\ call.self.variant = "Ambiguous"
    /\ output = call.self.dt[2]
    /\ output = ZAdd(call.self.dt[1], USEC_PER_HOUR)

\* ------------------------------------------------------------------------
\* Claims about the split of the general case
\* ------------------------------------------------------------------------

\* the text of ts that the dispatcher gave to parse_time: the slice of the
\* original text that it took
BaseTextTaken(ts) ==
    LET c == CHOOSE c \in cuts : c[1] = 0 /\ c[3] = Len(ts)
    IN  Slice(ts, c[1], c[2])

\* the text that it gave to parse_offset: the slice of the text without
\* whitespace that it took
OffsetTextTaken(ts) ==
    LET nw == strip_whitespace(ts)
        c == CHOOSE c \in cuts : c[3] = Len(nw)
    IN  Slice(nw, c[1], c[2])

\* C21: in the general case where only " -" occurs, the text is split at
\* the last '-' of the text without whitespace: what is before that '-' is
\* the base that is parsed, what is after it is the offset that is parsed
\* and subtracted.
C21_SplitAtLastMinus ==
    (Done("parse_timestamp_tz") /\ branch = "time-") =>
        LET nw == strip_whitespace(timestamp)
            m == rfind(nw, <<"-">>)
        IN  /\ strip_whitespace(BaseTextTaken(timestamp)) = Slice(nw, 0, m)
            /\ IsOk(result) =>
                  /\ OffsetTextTaken(timestamp) = SliceFrom(nw, m + 1)
                  /\ result.v = ZSub(base, DurationOf(SliceFrom(nw, m + 1)))

\* C25: when a parse of the general case with a modifier succeeds, the text
\* without whitespace is the base text that was parsed, without its
\* whitespace, then the sign, then the offset text that was parsed: no part
\* of the input is ignored, and "T -A -B" fails or subtracts both A and B.
C25_NothingIsIgnored ==
    (Done("parse_timestamp_tz") /\ branch \in {"time+", "time-"} /\ IsOk(result)) =>
        strip_whitespace(timestamp)
            = strip_whitespace(BaseTextTaken(timestamp))
              \o <<modifier>>
              \o OffsetTextTaken(timestamp)

\* ------------------------------------------------------------------------
\* Claims about the patterns of parse_time
\* ------------------------------------------------------------------------

Keywords == {NOW, EPOCH, TODAY, YESTERDAY, TOMORROW}

\* the text ts, all of it, has the form of the pattern and its fields are
\* a date or a time of day
MatchesWhole(ts, pattern) ==
    LET parsed == Scan(ts, pattern.fmt, Parsed0)
    IN  CASE pattern.yields = "datetime" ->
                to_naive_date(parsed).ok /\ to_naive_time(parsed).ok
          [] pattern.yields = "date" -> to_naive_date(parsed).ok
          [] pattern.yields = "time" -> to_naive_time(parsed).ok

\* the place in Patterns of the first pattern that ts matches, 0 if none
FirstMatching(ts) ==
    IF \E i \in 1..Len(Patterns) : MatchesWhole(ts, Patterns[i])
    THEN CHOOSE i \in 1..Len(Patterns) :
            /\ MatchesWhole(ts, Patterns[i])
            /\ \A j \in 1..(i - 1) : ~MatchesWhole(ts, Patterns[j])
    ELSE 0

\* the civil time that the pattern reads in ts: a date alone is its
\* 00:00:00, a time alone is on today's date in tz
CivilBy(ts, pattern, tz, now) ==
    LET parsed == Scan(ts, pattern.fmt, Parsed0)
    IN  CASE pattern.yields = "datetime" ->
                NaiveDateTime(to_naive_date(parsed).days, to_naive_time(parsed).secs)
          [] pattern.yields = "date" ->
                NaiveDateTime(to_naive_date(parsed).days, 0)
          [] pattern.yields = "time" ->
                NaiveDateTime(LocalDate(tz, now), to_naive_time(parsed).secs)

\* a finished call whose whole text went to parse_time and is no keyword
DonePattern ==
    /\ Done("parse_timestamp_tz")
    /\ branch = "time"
    /\ timestamp \notin Keywords

\* C22: a text that is no keyword is read by the first of the patterns
\* YY-MM-DD HH:MM:SS, YYYY-MM-DD HH:MM:SS, YY-MM-DD HH:MM, YYYY-MM-DD HH:MM,
\* YY-MM-DD, YYYY-MM-DD, HH:MM:SS, HH:MM that matches all of it: an instant
\* that is returned has the civil time of that pattern, a date alone at
\* 00:00:00 and a time alone on today's date, and the one instant of that
\* civil time is returned when the zone has exactly one; a text without '.'
\* that matches none is a Format error.  A text with a '.' matches none of
\* the patterns, so that looking for the '.' first changes no outcome.
C22_FirstMatchingPatternDecides ==
    DonePattern =>
        LET i == FirstMatching(timestamp)
            civil == CivilBy(timestamp, Patterns[i], time_zone, clock)
        IN  IF find(timestamp, <<".">>) # NoPos THEN i = 0
            ELSE IF i = 0 THEN result = Err("Format")
            ELSE /\ IsOk(result) => CivilOf(time_zone, result.v) = civil
                 /\ single(from_local_datetime(time_zone, civil)).some =>
                       result = Ok(single(from_local_datetime(time_zone, civil)).v)

\* ------------------------------------------------------------------------
\* Claims about today's date
\* ------------------------------------------------------------------------

\* the civil dates around the clock's readings
DaysAround == DaysFromCivil(2018, 3, 9) .. DaysFromCivil(2018, 3, 13)

\* the civil time `local` is on the date d
OnDate(local, d) ==
    /\ ZLe(NaiveDateTime(d, 0), local)
    /\ ZLt(local, NaiveDateTime(d + 1, 0))

\* ts, or what is before its '.', is a time of day without a date
TimeOnly(ts) ==
    LET p == find(ts, <<".">>)
        t == IF p = NoPos THEN ts ELSE Slice(ts, 0, p)
    IN  \/ NaiveTime_parse_from_str(t, FMT_H_M_S).ok
        \/ p = NoPos /\ NaiveTime_parse_from_str(t, FMT_H_M).ok

\* the current instant is on another date in the zone than in UTC
DatesDiffer(tz, now) ==
    \A d \in DaysAround : ~(OnDate(now, d) /\ OnDate(CivilOf(tz, now), d))

\* C23: "today" is 00:00:00 of the date that the current instant has in the
\* given time zone, and a time without a date is on that date, also when
\* that date is one day ahead of or behind the date in UTC; "today" gives
\* an instant whenever that midnight has exactly one instant in the zone.
C23_TodayIsTheLocalDate ==
    (Done("parse_timestamp_tz") /\ branch = "time") =>
        \E d \in DaysAround :
            /\ OnDate(CivilOf(time_zone, clock), d)
            /\ timestamp = TODAY =>
                  /\ IsOk(result) =>
                        CivilOf(time_zone, result.v) = NaiveDateTime(d, 0)
                  /\ from_local_datetime(time_zone, NaiveDateTime(d, 0)).kind = "Single"
                        => IsOk(result)
            /\ (TimeOnly(timestamp) /\ IsOk(result)) =>
                  OnDate(CivilOf(time_zone, result.v), d)

C23_Witness ==
    /\ Done("parse_timestamp_tz")
    /\ timestamp = TODAY
    /\ IsOk(result)
    /\ DatesDiffer(time_zone, clock)
    /\ ZLt(clock, CivilOf(time_zone, clock))

\* the same with the local date behind the date in UTC, for a time of day
C23_WitnessBehind ==
    /\ Done("parse_timestamp_tz")
    /\ TimeOnly(timestamp)
    /\ IsOk(result)
    /\ DatesDiffer(time_zone, clock)
    /\ ZLt(CivilOf(time_zone, clock), clock)

\* ------------------------------------------------------------------------
\* Claims about whitespace inside a time span
\* ------------------------------------------------------------------------

\* n minutes and n days as durations
Minutes(n) == ZNat(NatMul(NatOf(n), UnitMinute))
Days(n) == ZNat(NatMul(NatOf(n), UnitDay))

\* the outcome r of parsing a time, the duration d later
Later(r, d) == IF IsOk(r) THEN Ok(ZAdd(r.v, d)) ELSE r

\* the outcome of "today" in the call's zone at the call's reading
TodayNow == parse_timestamp_tz(TODAY, time_zone, clock)

\* a finished call that gave a text to parse_offset
DoneWithOffset ==
    /\ Done("parse_timestamp_tz")
    /\ branch \in {"+", "left", "-", "ago", "@", "time+", "time-"}
    /\ \E c \in cuts : c[3] = Len(strip_whitespace(timestamp))

\* C24: the offset that is tokenised is cut from the text without
\* whitespace, so that digits which only whitespace separates are one
\* number, of the unit that follows: "today + 1 1s" is today + 11 seconds,
\* "today + 4m 1 1s" is today + 4 minutes + 11 seconds, and the span
\* "10d 2 5m" is 10 days + 25 minutes, after '+', before " left" and after a
\* time and " - ".
C24_DigitsJoinAcrossWhitespace ==
    Done("parse_timestamp_tz") =>
        /\ DoneWithOffset =>
              /\ \A i \in 1..Len(OffsetTextTaken(timestamp)) :
                    OffsetTextTaken(timestamp)[i] \notin WhitespaceChars
              /\ IsOk(result) => total = DurationOf(OffsetTextTaken(timestamp))
        /\ timestamp = TODAY_PLUS_1_1S => result = Later(TodayNow, Seconds(11))
        /\ timestamp = TODAY_PLUS_4M_1_1S =>
              result = Later(TodayNow, ZAdd(Minutes(4), Seconds(11)))
        /\ timestamp = PLUS_10D_2_5M =>
              result = Ok(ZAdd(clock, ZAdd(Days(10), Minutes(25))))
        /\ timestamp = LEFT_10D_2_5M =>
              result = Ok(ZAdd(clock, ZAdd(Days(10), Minutes(25))))
        /\ timestamp = TODAY_MINUS_10D_2_5M =>
              result = Later(TodayNow, ZNeg(ZAdd(Days(10), Minutes(25))))

C24_Witness ==
    /\ Done("parse_timestamp_tz")
    /\ timestamp = TODAY_PLUS_4M_1_1S
    /\ IsOk(result)
    /\ total = ZAdd(Minutes(4), Seconds(11))

\* ------------------------------------------------------------------------
\* Claims about the loop of parse_offset
\* ------------------------------------------------------------------------

\* C26: parse_offset terminates on every text: an iteration that does not
\* return leaves a shorter text, so the loop has made at most as many
\* iterations as the text given has characters, and every call that has
\* begun returns; a text that starts with a character that is neither a
\* digit nor a letter returns an error in that iteration.
C26_ParseOffsetTerminates ==
    /\ [][(pc = "offset" /\ pc' = "offset") => Len(remaining') < Len(remaining)]_vars
    /\ [][(/\ pc = "offset"
           /\ remaining # <<>>
           /\ Head(remaining) \notin (is_digit \cup is_alphabetic))
          => (pc' = "done" /\ ~IsOk(result'))]_vars
    /\ [](caller = "parse_offset" =>
             /\ iters <= Len(timestamp)
             /\ pc = "offset" => iters + Len(remaining) <= Len(timestamp))
    /\ (pc = "offset") ~> (pc = "done")

C26_Witness ==
    /\ Done("parse_offset")
    /\ timestamp = <<"1", "s", "-", "2", "s">>
    /\ iters = 2
    /\ result = Err("Number")

\* ------------------------------------------------------------------------
\* Claims about the sign of an offset
\* ------------------------------------------------------------------------

\* C27: the total of parse_offset is never negative and no component makes
\* it smaller, so the duration returned is not negative; a call that
\* returns an instant from the forms '+', " left", '@' and "T +o" returns
\* one that is not earlier than the time the offset is relative to, and one
\* from the forms '-', " ago" and "T -o" returns one that is not later.
C27_OffsetIsNotNegative ==
    /\ [](ZLe(Z0, total))
    /\ [][pc = "offset" => ZLe(total, total')]_vars
    /\ []((DoneWithOffset /\ IsOk(result)) =>
             /\ branch \in {"+", "left", "@", "time+"} =>
                   ZLe(base, result.v) /\ result.v = ZAdd(base, total)
             /\ branch \in {"-", "ago", "time-"} =>
                   ZLe(result.v, base) /\ result.v = ZSub(base, total))

C27_Witness ==
    /\ DoneWithOffset
    /\ IsOk(result)
    /\ branch = "ago"
    /\ ZLt(result.v, base)
    /\ iters = 3

\* ------------------------------------------------------------------------
\* Claims about the slices of the dispatcher
\* ------------------------------------------------------------------------

\* the slices that the claim lists for a text ts, by the branch taken
ListedCuts(ts) ==
    LET nw == strip_whitespace(ts)
        n == Len(nw)
    IN  CASE branch \in {"+", "-", "@"} -> {<<1, n, n>>}
          [] branch = "left" -> {<<0, n - 4, n>>}
          [] branch = "ago" -> {<<0, n - 3, n>>}
          [] branch = "time+" ->
                {<<0, find(ts, <<" ", "+">>), Len(ts)>>,
                 <<find(nw, <<"+">>) + 1, n, n>>}
          [] branch = "time-" ->
                {<<0, find(ts, <<" ", "-">>), Len(ts)>>,
                 <<rfind(nw, <<"-">>) + 1, n, n>>}
          [] OTHER -> {}

\* C28: the slices that the dispatcher takes are those listed (from 1 after
\* a leading '+', '-' or '@'; up to the length less 4 before " left" and
\* less 3 before " ago"; from after the '+' or '-' located in the text
\* without whitespace; up to the " +" or " -" of the original), each has
\* 0 <= from <= to <= the length of the text it cuts, and in the general
\* case the sign is found in the text without whitespace: no call aborts
\* on a slice.
C28_CutsAreInRange ==
    caller = "parse_timestamp_tz" =>
        /\ cuts \subseteq ListedCuts(timestamp)
        /\ \A c \in ListedCuts(timestamp) :
              0 <= c[1] /\ c[1] <= c[2] /\ c[2] <= c[3]
        /\ branch = "time+" =>
              find(strip_whitespace(timestamp), <<"+">>) # NoPos
        /\ branch = "time-" =>
              rfind(strip_whitespace(timestamp), <<"-">>) # NoPos
        /\ DoneWithOffset => cuts = ListedCuts(timestamp)

C28_Witness ==
    /\ Done("parse_timestamp_tz")
    /\ branch = "left"
    /\ cuts = {<<0, 0, 4>>}
    /\ IsOk(result)

\* ------------------------------------------------------------------------
\* Claims about the range of the instants
\* ------------------------------------------------------------------------

\* the call returned: an instant or one of the errors
Returned(r) == r.kind \in {"Ok", "Format", "Number", "TimeUnit"}

\* C29: a call whose time and whose offset both parse returns: the instant
\* time + offset or time - offset when a DateTime can hold it, else an
\* error; likewise the civil time before a '.' plus the microseconds after
\* it.  No call aborts on the sum.
C29_CombinationNeverAborts ==
    /\ DoneWithOffset => Returned(result)
    /\ (/\ DoneDotted
        /\ TimeBeforeDot(timestamp, time_zone, clock)
        /\ parse_i64(AfterDot(timestamp)).some) => Returned(result)

\* ------------------------------------------------------------------------
\* Claims about what depends on the clock
\* ------------------------------------------------------------------------

\* the readings that the clock can give
ClockReadings == {ZAdd(Clock0, ZMul(ZOf(k), TickStep)) : k \in 0..MaxTicks}

\* the text of the time of a finished call of the general case
TimeTextTaken ==
    IF branch = "time" THEN timestamp ELSE BaseTextTaken(timestamp)

\* t is "epoch" or has a date: it matches one of the six patterns with a
\* date, or what is before its '.' matches one with a date and seconds
HasDate(t) ==
    \/ t = EPOCH
    \/ \E i \in 1..6 : MatchesWhole(t, Patterns[i])
    \/ /\ find(t, <<".">>) # NoPos
       /\ \E i \in 1..2 : MatchesWhole(BeforeDot(t), DotPatterns[i])

\* t is a time of the current day or relative to it
OfToday(t) == t \in {NOW, TODAY, YESTERDAY, TOMORROW} \/ TimeOnly(t)

\* the call was given an absolute time: the '@' form, or the general case
\* with "epoch" or a date, with or without offset
Absolute ==
    \/ branch = "@"
    \/ branch \in {"time", "time+", "time-"} /\ HasDate(TimeTextTaken)

\* C30: no call reads the clock more than once; a call with an absolute
\* time ("epoch", the '@' form, a pattern with a date, with or without
\* offset) does not read it and returns the same outcome at every reading
\* of the clock; a call that reads it is "now", "today", "yesterday",
\* "tomorrow" or a time without date, with or without offset, or one of
\* the forms "+o", "-o", "o left", "o ago".
C30_AbsoluteIgnoresTheClock ==
    Done("parse_timestamp_tz") =>
        /\ reads <= 1
        /\ Absolute =>
              /\ reads = 0
              /\ \A c \in ClockReadings :
                    parse_timestamp_tz(timestamp, time_zone, c) = result
        /\ reads = 1 =>
              \/ branch \in {"+", "-", "left", "ago"}
              \/ branch \in {"time", "time+", "time-"} /\ OfToday(TimeTextTaken)

C30_Witness ==
    /\ Done("parse_timestamp_tz")
    /\ Absolute
    /\ branch = "time-"
    /\ IsOk(result)
    /\ clock # Clock0

====
